---- MODULE Spec2Model ----
(***************************************************************************)
(* Recurrence scheduling engine of the chores application: the schedule    *)
(* variants, the bounded backward / forward due-date searches, the status  *)
(* predicates built on them, the home page classification, and the day     *)
(* range texts of the task editor.                                         *)
(*                                                                         *)
(* Instants (DateTime<Utc>) are integers: minutes since 1970-01-01T00:00Z. *)
(* A NaiveDate is a day number since 1970-01-01, a NaiveTime a minute of   *)
(* the day.  A time zone is its standard and daylight offsets from UTC in  *)
(* minutes with the periods daylight time is in force.  Option<T> is a set *)
(* with at most one element, a chrono LocalResult the set of the instants  *)
(* a local time maps to, a string the sequence of its characters.  A       *)
(* function that can panic returns Ok(value) or Panicked, a Result is      *)
(* Ok(value) or Err(error).                                                *)
(*                                                                         *)
(* now is the clock, tz the zone get_timezone returns and local the zone   *)
(* of the process, task the stored task, completions its completion rows,  *)
(* form the last form or text submitted, view the last response.           *)
(* APP_TIMEZONE is the cell of config.rs and threads the calls in progress *)
(* on it.                                                                  *)
(***************************************************************************)
EXTENDS Integers, Sequences, FiniteSets, TLC

VARIABLES now, tz, local, task, completions, form, view, APP_TIMEZONE, threads

vars == <<now, tz, local, task, completions, form, view, APP_TIMEZONE, threads>>

-----------------------------------------------------------------------------
(* chrono: durations, dates, weekdays, zones                               *)

MinutesPerDay == 24 * 60

Days(n) == n * MinutesPerDay

Minutes(n) == n

HM(h, m) == h * 60 + m

None == {}

Some(x) == {x}

\* proleptic Gregorian calendar date of a day number, in four steps: the date
\* within a year counted from March 1, the day of that year, the year of the
\* 400-year era, the era
CivilOfMarchYear(y, doy, mp) ==
    [year  |-> IF mp < 10 THEN y ELSE y + 1,
     month |-> IF mp < 10 THEN mp + 3 ELSE mp - 9,
     day   |-> doy - ((153 * mp + 2) \div 5) + 1]

CivilOfDayOfYear(y, doy) == CivilOfMarchYear(y, doy, (5 * doy + 2) \div 153)

CivilOfYearOfEra(era, doe, yoe) ==
    CivilOfDayOfYear(yoe + era * 400, doe - (365 * yoe + (yoe \div 4) - (yoe \div 100)))

CivilOfDayOfEra(era, doe) ==
    CivilOfYearOfEra(era, doe,
        (doe - (doe \div 1460) + (doe \div 36524) - (doe \div 146096)) \div 365)

CivilFromDays(d) == CivilOfDayOfEra((d + 719468) \div 146097, (d + 719468) % 146097)

\* day number of a calendar date
DaysFromCivil(y, m, d) ==
    LET yy  == IF m <= 2 THEN y - 1 ELSE y
        era == yy \div 400
        yoe == yy - era * 400
        mp  == IF m > 2 THEN m - 3 ELSE m + 9
        doy == ((153 * mp + 2) \div 5) + d - 1
        doe == yoe * 365 + (yoe \div 4) - (yoe \div 100) + doy
    IN  era * 146097 + doe - 719468

\* the calendar dates of the days the searches can visit, computed once
CalendarFirst == DaysFromCivil(2022, 1, 1)

CalendarLast == DaysFromCivil(2027, 12, 31)

Calendar == [d \in CalendarFirst .. CalendarLast |-> CivilFromDays(d)]

DayOf(date) == Calendar[date].day

MonthOf(date) == Calendar[date].month

WeekdayNames == <<"Sun", "Mon", "Tue", "Wed", "Thu", "Fri", "Sat">>

\* 1970-01-01 was a Thursday
WeekdayOf(date) == WeekdayNames[((date + 4) % 7) + 1]

\* a zone without daylight time
FixedOffset(minutes) == [standard |-> minutes, daylight |-> minutes, periods |-> {}]

UTC == FixedOffset(0)

\* the offset in force at an instant
offset_from_utc(zone, t) ==
    IF \E p \in zone.periods : p[1] <= t /\ t < p[2] THEN zone.daylight
    ELSE zone.standard

\* DateTime::with_timezone(zone).date_naive() and .time()
DateNaive(zone, t) == (t + offset_from_utc(zone, t)) \div MinutesPerDay

TimeOf(zone, t) == (t + offset_from_utc(zone, t)) % MinutesPerDay

\* zone.from_local_datetime(date.and_time(time)): LocalResult::None in a gap,
\* Single, or Ambiguous in a fold
from_local_datetime(zone, date, time) ==
    LET wall == date * MinutesPerDay + time
    IN  {u \in {wall - zone.standard, wall - zone.daylight} :
            u + offset_from_utc(zone, u) = wall}

Ok(x) == [ok |-> TRUE, value |-> x]

Panicked == [ok |-> FALSE]

\* LocalResult::unwrap: the single conversion result, a panic otherwise
unwrap(local_result) ==
    IF Cardinality(local_result) = 1 THEN Ok(CHOOSE u \in local_result : TRUE)
    ELSE Panicked

\* the conversion where the local time exists once
FromLocalDatetime(zone, date, time) == unwrap(from_local_datetime(zone, date, time)).value

-----------------------------------------------------------------------------
(* schedule.rs: the weekday set                                            *)

active(sub_schedule, day) ==
    CASE day = "Sun" -> sub_schedule.sunday
      [] day = "Mon" -> sub_schedule.monday
      [] day = "Tue" -> sub_schedule.tuesday
      [] day = "Wed" -> sub_schedule.wednesday
      [] day = "Thu" -> sub_schedule.thursday
      [] day = "Fri" -> sub_schedule.friday
      [] day = "Sat" -> sub_schedule.saturday

\* Vec::contains
contains(v, x) == \E i \in DOMAIN v : v[i] = x

\* variant: the week ordinal taken from the day number itself
get_week_of_month_unshifted(date) == (DayOf(date) \div 7) + 1

get_week_of_month(date) == ((DayOf(date) - 1) \div 7) + 1

-----------------------------------------------------------------------------
(* tasks.rs: the date predicate and the due-date searches of DemoTask      *)

\* i64::abs
Abs(n) == IF n < 0 THEN 0 - n ELSE n

\* variant: EveryNWeeks matches in every weeks-th week only, counted from the
\* week of the evaluation date
is_due_on_date_nth_week(t, date, at, zone) ==
    IF \E created_at \in t.created_at : date < DateNaive(zone, created_at) THEN Ok(FALSE)
    ELSE IF \E deleted_at \in t.deleted_at : date > DateNaive(zone, deleted_at) THEN Ok(FALSE)
    ELSE CASE t.schedule_kind = "NDays" ->
                IF t.n_days.days = 0 THEN Panicked
                ELSE Ok(Abs(date - DateNaive(zone, at)) % Abs(t.n_days.days) = 0)
           [] t.schedule_kind = "NWeeks" ->
                Ok(/\ active(t.n_weeks.sub_schedule, WeekdayOf(date))
                   /\ (Abs(date - DateNaive(zone, at)) \div 7) % t.n_weeks.weeks = 0)
           [] t.schedule_kind = "Monthwise" ->
                Ok(contains(t.monthwise.days, DayOf(date)))
           [] t.schedule_kind = "WeeksOfMonth" ->
                Ok(/\ active(t.weeks_of_month.sub_schedule, WeekdayOf(date))
                   /\ contains(t.weeks_of_month.weeks, get_week_of_month(date)))
           [] t.schedule_kind = "CertainMonths" ->
                Ok(/\ contains(t.certain_months.months, MonthOf(date))
                   /\ contains(t.certain_months.days, DayOf(date)))
           [] t.schedule_kind = "Once" ->
                Ok(date = DateNaive(zone, t.once.datetime))

\* Ok(bool), or a panic: the remainder of a division by an interval of zero
is_due_on_date(t, date, at, zone) ==
    IF \E created_at \in t.created_at : date < DateNaive(zone, created_at) THEN Ok(FALSE)
    ELSE IF \E deleted_at \in t.deleted_at : date > DateNaive(zone, deleted_at) THEN Ok(FALSE)
    ELSE CASE t.schedule_kind = "NDays" ->
                LET today     == DateNaive(zone, at)
                    days_diff == Abs(date - today)
                IN  IF t.n_days.days = 0 THEN Panicked
                    \* the remainder of a non-negative dividend has the
                    \* divisor's magnitude only
                    ELSE Ok(days_diff % Abs(t.n_days.days) = 0)
           [] t.schedule_kind = "NWeeks" ->
                Ok(active(t.n_weeks.sub_schedule, WeekdayOf(date)))
           [] t.schedule_kind = "Monthwise" ->
                Ok(contains(t.monthwise.days, DayOf(date)))
           [] t.schedule_kind = "WeeksOfMonth" ->
                Ok(/\ active(t.weeks_of_month.sub_schedule, WeekdayOf(date))
                   /\ contains(t.weeks_of_month.weeks, get_week_of_month(date)))
           [] t.schedule_kind = "CertainMonths" ->
                Ok(/\ contains(t.certain_months.months, MonthOf(date))
                   /\ contains(t.certain_months.days, DayOf(date)))
           [] t.schedule_kind = "Once" ->
                Ok(date = DateNaive(zone, t.once.datetime))

get_due_time(t, zone) ==
    CASE t.schedule_kind = "NDays" -> t.n_days.time
      [] t.schedule_kind = "NWeeks" -> t.n_weeks.sub_schedule.time
      [] t.schedule_kind = "Monthwise" -> t.monthwise.time
      [] t.schedule_kind = "WeeksOfMonth" -> t.weeks_of_month.sub_schedule.time
      [] t.schedule_kind = "CertainMonths" -> t.certain_months.time
      [] t.schedule_kind = "Once" -> TimeOf(zone, t.once.datetime)

ForwardHorizon == 1000

DistantFutureDays == 10000

BackwardHorizon == 60

\* In each search `last` is the pass of the `for` loop in which the function is
\* left, by a return or by a panic.

\* variant: an occurrence equal to `at` is returned
next_due_search_inclusive(t, at, zone) ==
    LET today == DateNaive(zone, at)
        \* one pass of the loop body: Some(outcome) when the function is left
        body(days_ahead) ==
            LET check_date == today + days_ahead
                due        == is_due_on_date(t, check_date, at, zone)
                at_time    == unwrap(from_local_datetime(zone, check_date,
                                                          get_due_time(t, zone)))
            IN  IF ~due.ok THEN Some(Panicked)
                ELSE IF ~due.value THEN None
                ELSE IF ~at_time.ok THEN Some(Panicked)
                ELSE IF at_time.value >= at THEN Some(at_time)
                ELSE None
        \* the first pass that leaves, or one past the range
        last == CHOOSE k \in 0 .. ForwardHorizon + 1 :
                    /\ k = ForwardHorizon + 1 \/ body(k) # None
                    /\ \A j \in 0 .. (k - 1) : body(j) = None
    IN  IF last = ForwardHorizon + 1 THEN Ok(at + Days(DistantFutureDays))
        ELSE CHOOSE outcome \in body(last) : TRUE

next_due_search(t, at, zone) ==
    LET today == DateNaive(zone, at)
        \* one pass of the loop body: Some(outcome) when the function is left
        body(days_ahead) ==
            LET check_date == today + days_ahead
                due        == is_due_on_date(t, check_date, at, zone)
                at_time    == unwrap(from_local_datetime(zone, check_date,
                                                          get_due_time(t, zone)))
            IN  IF ~due.ok THEN Some(Panicked)
                ELSE IF ~due.value THEN None
                ELSE IF ~at_time.ok THEN Some(Panicked)
                ELSE IF at_time.value > at THEN Some(at_time)
                ELSE None
        \* the first pass that leaves, or one past the range
        last == CHOOSE k \in 0 .. ForwardHorizon + 1 :
                    /\ k = ForwardHorizon + 1 \/ body(k) # None
                    /\ \A j \in 0 .. (k - 1) : body(j) = None
    IN  IF last = ForwardHorizon + 1 THEN Ok(at + Days(DistantFutureDays))
        ELSE CHOOSE outcome \in body(last) : TRUE

next_due_date(t, at, zone) ==
    IF t.schedule_kind = "Once" THEN Ok(t.once.datetime)
    ELSE next_due_search(t, at, zone)

\* variant: the fallback is the instant of evaluation itself
most_recent_due_date_from_now(t, at, zone) ==
    LET today == DateNaive(zone, at)
        \* one pass of the loop body: Some(outcome) when the function is left
        body(days_back) ==
            LET check_date == today - days_back
                due        == is_due_on_date(t, check_date, at, zone)
                at_time    == unwrap(from_local_datetime(zone, check_date,
                                                          get_due_time(t, zone)))
            IN  IF ~due.ok THEN Some(Panicked)
                ELSE IF ~due.value THEN None
                ELSE IF ~at_time.ok THEN Some(Panicked)
                ELSE IF at_time.value <= at THEN Some(at_time)
                ELSE None
        \* the first pass that leaves, or one past the range
        last == CHOOSE k \in 0 .. BackwardHorizon + 1 :
                    /\ k = BackwardHorizon + 1 \/ body(k) # None
                    /\ \A j \in 0 .. (k - 1) : body(j) = None
    IN  IF last = BackwardHorizon + 1 THEN Ok(at)
        ELSE CHOOSE outcome \in body(last) : TRUE

most_recent_due_date(t, at, zone) ==
    LET today == DateNaive(zone, at)
        \* one pass of the loop body: Some(outcome) when the function is left
        body(days_back) ==
            LET check_date == today - days_back
                due        == is_due_on_date(t, check_date, at, zone)
                at_time    == unwrap(from_local_datetime(zone, check_date,
                                                          get_due_time(t, zone)))
            IN  IF ~due.ok THEN Some(Panicked)
                ELSE IF ~due.value THEN None
                ELSE IF ~at_time.ok THEN Some(Panicked)
                ELSE IF at_time.value <= at THEN Some(at_time)
                ELSE None
        \* the first pass that leaves, or one past the range
        last == CHOOSE k \in 0 .. BackwardHorizon + 1 :
                    /\ k = BackwardHorizon + 1 \/ body(k) # None
                    /\ \A j \in 0 .. (k - 1) : body(j) = None
    IN  IF last = BackwardHorizon + 1 THEN Ok(at - Days(BackwardHorizon))
        ELSE CHOOSE outcome \in body(last) : TRUE

DistantFutureThreshold == 1000

is_distant_future(t, at, zone) ==
    next_due_date(t, at, zone).value > at + Days(DistantFutureThreshold)

\* variant: strictly after the instant
is_once_completed_strict(t, at) ==
    t.schedule_kind = "Once" /\ t.once.datetime < at

is_once_completed(t, at) ==
    t.schedule_kind = "Once" /\ t.once.datetime <= at

\* variant: the bounds of the window count as outside
is_inactive_inclusive(t, at) ==
    IF \E created_at \in t.created_at : at <= created_at THEN TRUE
    ELSE IF \E deleted_at \in t.deleted_at : at >= deleted_at THEN TRUE
    ELSE FALSE

is_inactive(t, at) ==
    IF \E created_at \in t.created_at : at < created_at THEN TRUE
    ELSE IF \E deleted_at \in t.deleted_at : at > deleted_at THEN TRUE
    ELSE FALSE

is_due(t, at, zone) ==
    IF is_inactive(t, at) THEN FALSE
    ELSE next_due_date(t, at, zone).value <= at

\* variant: the far end of the alert window is left out
is_alerting_exclusive(t, at, zone) ==
    IF is_inactive(t, at) THEN FALSE
    ELSE LET next_due        == next_due_date(t, at, zone).value
             alert_threshold == at + Minutes(t.alerting_time)
         IN  next_due > at /\ next_due < alert_threshold

is_alerting(t, at, zone) ==
    IF is_inactive(t, at) THEN FALSE
    ELSE LET next_due        == next_due_date(t, at, zone).value
             alert_threshold == at + Minutes(t.alerting_time)
         IN  next_due > at /\ next_due <= alert_threshold

-----------------------------------------------------------------------------
(* db.rs and tasks.rs: completion records and the home page               *)

RECURSIVE MaxOf(_)
MaxOf(S) ==
    LET x == CHOOSE y \in S : TRUE
    IN  IF S = {x} THEN x
        ELSE LET m == MaxOf(S \ {x}) IN IF x > m THEN x ELSE m

\* SELECT completed_at ... ORDER BY completed_at DESC LIMIT 1
get_latest_completion(rows) ==
    IF rows = <<>> THEN None
    ELSE Some(MaxOf({rows[i] : i \in DOMAIN rows}))

\* variant: every task goes through the completion bookkeeping
homepage_completeable(t, rows, at, zone) ==
    IF is_inactive(t, at) THEN "inactive"
    ELSE
        LET is_completed ==
                \E completion_time \in get_latest_completion(rows) :
                    completion_time > most_recent_due_date(t, at, zone).value
        IN  IF is_completed THEN "completed"
            ELSE IF is_due(t, at, zone) THEN "due"
            ELSE IF is_alerting(t, at, zone) THEN "alerting"
            ELSE "other"

\* variant: the completion record is consulted before the window of the task
homepage_completed_first(t, rows, at, zone) ==
    IF /\ t.completeable
       /\ \E completion_time \in get_latest_completion(rows) :
              completion_time > most_recent_due_date(t, at, zone).value
    THEN "completed"
    ELSE homepage_completeable(t, rows, at, zone)

\* the list the home page puts a task in
homepage(t, rows, at, zone) ==
    IF is_inactive(t, at) THEN "inactive"
    ELSE IF is_once_completed(t, at) /\ ~t.completeable THEN "completed"
    ELSE IF ~t.completeable THEN
        LET most_recent_due == most_recent_due_date(t, at, zone).value
            time_since_due  == at - most_recent_due
        IN  IF is_alerting(t, at, zone) THEN "alerting"
            ELSE IF most_recent_due <= at /\ time_since_due <= Days(1) THEN "completed"
            ELSE "recurring"
    ELSE
        LET is_completed ==
                \E completion_time \in get_latest_completion(rows) :
                    completion_time > most_recent_due_date(t, at, zone).value
        IN  IF is_completed THEN "completed"
            ELSE IF is_due(t, at, zone) THEN "due"
            ELSE IF is_alerting(t, at, zone) THEN "alerting"
            ELSE "other"

-----------------------------------------------------------------------------
(* schedule.rs: Schedule::most_recent_due_date, one search per variant,    *)
(* in the system's Local zone                                              *)

OnceMostRecentDueDate(once) == once.datetime

NDaysMostRecentDueDate(n_days, at, zone) ==
    LET today_at_time == FromLocalDatetime(zone, DateNaive(zone, at), n_days.time)
    IN  IF today_at_time > at THEN today_at_time - Days(n_days.days)
        ELSE today_at_time

\* variant: the look-back stops one day short
NWeeksLookBackShort(n_weeks, at, zone) ==
    LET check_date(days_back) == DateNaive(zone, at - Days(days_back))
        hit(days_back)        ==
            active(n_weeks.sub_schedule, WeekdayOf(check_date(days_back)))
        found ==
            IF \E k \in 1 .. 7 * n_weeks.weeks - 1 : hit(k)
            THEN Some(CHOOSE k \in 1 .. 7 * n_weeks.weeks - 1 : hit(k) /\ \A j \in 1 .. (k - 1) : ~hit(j))
            ELSE None
    IN  IF found = None THEN at
        ELSE FromLocalDatetime(zone, check_date(CHOOSE k \in found : TRUE),
                               n_weeks.sub_schedule.time)

NWeeksLookBack(n_weeks, at, zone) ==
    LET check_date(days_back) == DateNaive(zone, at - Days(days_back))
        hit(days_back)        ==
            active(n_weeks.sub_schedule, WeekdayOf(check_date(days_back)))
        found ==
            IF \E k \in 1 .. 7 * n_weeks.weeks : hit(k)
            THEN Some(CHOOSE k \in 1 .. 7 * n_weeks.weeks : hit(k) /\ \A j \in 1 .. (k - 1) : ~hit(j))
            ELSE None
    IN  IF found = None THEN at
        ELSE FromLocalDatetime(zone, check_date(CHOOSE k \in found : TRUE), n_weeks.sub_schedule.time)

NWeeksMostRecentDueDate(n_weeks, at, zone) ==
    LET today         == DateNaive(zone, at)
        today_at_time == FromLocalDatetime(zone, today, n_weeks.sub_schedule.time)
    IN  IF active(n_weeks.sub_schedule, WeekdayOf(today)) /\ today_at_time <= at
        THEN today_at_time
        ELSE NWeeksLookBack(n_weeks, at, zone)

MonthwiseMostRecentDueDate(monthwise, at, zone) ==
    LET today         == DateNaive(zone, at)
        today_day     == DayOf(today)
        today_at_time == FromLocalDatetime(zone, today, monthwise.time)
        most_recent_day ==
            LET earlier == {d \in {monthwise.days[i] : i \in DOMAIN monthwise.days} :
                               d < today_day}
            IN  IF earlier = {} THEN None ELSE Some(MaxOf(earlier))
        prev_month    == DateNaive(zone, at - Days(28))
        last_day_of_prev_month == (prev_month - DayOf(prev_month) + 1) - 1
        max_day_prev  == DayOf(last_day_of_prev_month)
        most_recent_day_prev ==
            LET fitting == {d \in {monthwise.days[i] : i \in DOMAIN monthwise.days} :
                               d <= max_day_prev}
            IN  IF fitting = {} THEN None ELSE Some(MaxOf(fitting))
    IN  IF contains(monthwise.days, today_day) /\ today_at_time <= at
        THEN today_at_time
        ELSE IF most_recent_day # None
        THEN LET day == CHOOSE d \in most_recent_day : TRUE
             IN  FromLocalDatetime(zone, today - today_day + day, monthwise.time)
        ELSE IF most_recent_day_prev # None
        THEN LET day == CHOOSE d \in most_recent_day_prev : TRUE
             IN  FromLocalDatetime(zone,
                     last_day_of_prev_month - max_day_prev + day, monthwise.time)
        ELSE at

WeeksOfMonthLookBackDays == 60

WeeksOfMonthLookBack(weeks_of_month, at, zone) ==
    LET check_date(days_back) == DateNaive(zone, at - Days(days_back))
        hit(days_back)        ==
            /\ active(weeks_of_month.sub_schedule, WeekdayOf(check_date(days_back)))
            /\ contains(weeks_of_month.weeks, get_week_of_month(check_date(days_back)))
        found ==
            IF \E k \in 1 .. WeeksOfMonthLookBackDays : hit(k)
            THEN Some(CHOOSE k \in 1 .. WeeksOfMonthLookBackDays : hit(k) /\ \A j \in 1 .. (k - 1) : ~hit(j))
            ELSE None
    IN  IF found = None THEN at
        ELSE FromLocalDatetime(zone, check_date(CHOOSE k \in found : TRUE), weeks_of_month.sub_schedule.time)

WeeksOfMonthMostRecentDueDate(weeks_of_month, at, zone) ==
    LET today         == DateNaive(zone, at)
        today_at_time == FromLocalDatetime(zone, today, weeks_of_month.sub_schedule.time)
    IN  IF /\ active(weeks_of_month.sub_schedule, WeekdayOf(today))
           /\ contains(weeks_of_month.weeks, get_week_of_month(today))
           /\ today_at_time <= at
        THEN today_at_time
        ELSE WeeksOfMonthLookBack(weeks_of_month, at, zone)

CertainMonthsLookBackDays == 365

CertainMonthsLookBack(certain_months, at, zone) ==
    LET check_date(days_back) == DateNaive(zone, at - Days(days_back))
        hit(days_back)        ==
            /\ contains(certain_months.months, MonthOf(check_date(days_back)))
            /\ contains(certain_months.days, DayOf(check_date(days_back)))
        found ==
            IF \E k \in 1 .. CertainMonthsLookBackDays : hit(k)
            THEN Some(CHOOSE k \in 1 .. CertainMonthsLookBackDays : hit(k) /\ \A j \in 1 .. (k - 1) : ~hit(j))
            ELSE None
    IN  IF found = None THEN at
        ELSE FromLocalDatetime(zone, check_date(CHOOSE k \in found : TRUE), certain_months.time)

CertainMonthsMostRecentDueDate(certain_months, at, zone) ==
    LET today         == DateNaive(zone, at)
        today_at_time == FromLocalDatetime(zone, today, certain_months.time)
    IN  IF /\ contains(certain_months.months, MonthOf(today))
           /\ contains(certain_months.days, DayOf(today))
           /\ today_at_time <= at
        THEN today_at_time
        ELSE CertainMonthsLookBack(certain_months, at, zone)

\* Schedule::most_recent_due_date: dispatch on the kind
ScheduleMostRecentDueDate(schedule, at, zone) ==
    CASE schedule.kind = "NDays" -> NDaysMostRecentDueDate(schedule.n_days, at, zone)
      [] schedule.kind = "NWeeks" -> NWeeksMostRecentDueDate(schedule.n_weeks, at, zone)
      [] schedule.kind = "Monthwise" ->
            MonthwiseMostRecentDueDate(schedule.monthwise, at, zone)
      [] schedule.kind = "WeeksOfMonth" ->
            WeeksOfMonthMostRecentDueDate(schedule.weeks_of_month, at, zone)
      [] schedule.kind = "CertainMonths" ->
            CertainMonthsMostRecentDueDate(schedule.certain_months, at, zone)
      [] schedule.kind = "Once" -> OnceMostRecentDueDate(schedule.once)

-----------------------------------------------------------------------------
(* task.rs: Task, a Schedule with its completion list                      *)

\* sorts a copy of the list, then answers from the list as given
TaskLastCompletion(t) ==
    IF t.completions = None THEN None
    ELSE LET given == CHOOSE c \in t.completions : TRUE
         IN  IF given = <<>> THEN None ELSE Some(given[Len(given)])

TaskIsDue(t, at, zone) ==
    LET last == TaskLastCompletion(t)
    IN  IF last = None THEN TRUE
        ELSE \E when \in last : when < ScheduleMostRecentDueDate(t.schedule, at, zone)

-----------------------------------------------------------------------------
(* tasks.rs: day range texts.  A String is the sequence of its characters, *)
(* an error message its template and the value it names.                   *)

Err(e) == [ok |-> FALSE, error |-> e]

\* char::is_whitespace, for the characters of the inputs
IsWhitespace(c) == c = " "

\* str::trim
trim(s) ==
    IF \A i \in DOMAIN s : IsWhitespace(s[i]) THEN <<>>
    ELSE SubSeq(s, CHOOSE i \in DOMAIN s : /\ ~IsWhitespace(s[i])
                                           /\ \A j \in 1 .. (i - 1) : IsWhitespace(s[j]),
                   CHOOSE i \in DOMAIN s : /\ ~IsWhitespace(s[i])
                                           /\ \A j \in (i + 1) .. Len(s) : IsWhitespace(s[j]))

\* str::split(char): the parts between the occurrences, empty ones included
RECURSIVE split(_, _)
split(s, sep) ==
    IF ~contains(s, sep) THEN <<s>>
    ELSE <<SubSeq(s, 1, (CHOOSE i \in DOMAIN s :
                            s[i] = sep /\ \A j \in 1 .. (i - 1) : s[j] # sep) - 1)>>
         \o split(SubSeq(s, (CHOOSE i \in DOMAIN s :
                                s[i] = sep /\ \A j \in 1 .. (i - 1) : s[j] # sep) + 1, Len(s)),
                  sep)

DecimalDigits == <<"0", "1", "2", "3", "4", "5", "6", "7", "8", "9">>

IsDigit(c) == contains(DecimalDigits, c)

DigitValue(c) == (CHOOSE i \in DOMAIN DecimalDigits : DecimalDigits[i] = c) - 1

\* the value of a digit string as an i32, None past i32::MAX = 2147483647
RECURSIVE checked_digits(_, _)
checked_digits(s, acc) ==
    IF s = <<>> THEN Some(acc)
    ELSE IF acc > 214748364 \/ (acc = 214748364 /\ DigitValue(Head(s)) > 7) THEN None
    ELSE checked_digits(Tail(s), acc * 10 + DigitValue(Head(s)))

\* str::parse::<i32>: digits after an optional sign.  A text with '-' never
\* gets here (it is split at '-' first), so the sign is '+'.
parse_i32(s) ==
    IF s # <<>> /\ Head(s) = "+" THEN
        IF Len(s) > 1 /\ \A i \in 2 .. Len(s) : IsDigit(s[i])
        THEN checked_digits(Tail(s), 0) ELSE None
    ELSE IF s # <<>> /\ \A i \in DOMAIN s : IsDigit(s[i])
        THEN checked_digits(s, 0) ELSE None

\* Vec::sort: every element at its rank, equal ones in their order
sort(v) ==
    [k \in 1 .. Len(v) |->
        v[CHOOSE i \in DOMAIN v :
              Cardinality({j \in DOMAIN v : v[j] < v[i] \/ (v[j] = v[i] /\ j < i)}) = k - 1]]

\* the positions Vec::dedup keeps: the first one of every run of equals
kept(v) == {i \in DOMAIN v : i = 1 \/ v[i] # v[i - 1]}

\* Vec::dedup: consecutive repeats removed
dedup(v) ==
    [k \in 1 .. Cardinality(kept(v)) |->
        v[CHOOSE i \in kept(v) : Cardinality({j \in kept(v) : j < i}) = k - 1]]

\* variant: the error names the end of the range
push_range_naming_end(start, end) ==
    IF start < 1 \/ start > 31 THEN Err([message |-> "out of range", day |-> start])
    ELSE IF end > 31 THEN Err([message |-> "out of range", day |-> end])
    ELSE Ok([i \in 1 .. (end - start + 1) |-> start + i - 1])

\* for day in start..=end { range check; push }: the first day outside 1..31
\* ends the loop with its error
push_range(start, end) ==
    IF start < 1 \/ start > 31 THEN Err([message |-> "out of range", day |-> start])
    ELSE IF end > 31 THEN Err([message |-> "out of range", day |-> 32])
    ELSE Ok([i \in 1 .. (end - start + 1) |-> start + i - 1])

\* the two numbers of a range, parsed
range_of(part, start, end) ==
    IF start = None
    THEN Err([message |-> "Invalid number", text |-> trim(split(part, "-")[1])])
    ELSE IF end = None
    THEN Err([message |-> "Invalid number", text |-> trim(split(part, "-")[2])])
    ELSE IF (CHOOSE n \in start : TRUE) > (CHOOSE n \in end : TRUE)
    THEN Err([message |-> "start must be <= end", text |-> part])
    ELSE push_range(CHOOSE n \in start : TRUE, CHOOSE n \in end : TRUE)

\* a single number, parsed
single_of(part, day) ==
    IF day = None THEN Err([message |-> "Invalid number", text |-> part])
    ELSE push_range(CHOOSE n \in day : TRUE, CHOOSE n \in day : TRUE)

\* variant: what follows a second '-' is ignored
parse_part_lenient(part) ==
    IF part = <<>> THEN Ok(<<>>)
    ELSE IF contains(part, "-") THEN
        range_of(part, parse_i32(trim(split(part, "-")[1])),
                       parse_i32(trim(split(part, "-")[2])))
    ELSE single_of(part, parse_i32(part))

\* one pass of the loop over the parts: the days the part adds, or its error
parse_part(part) ==
    IF part = <<>> THEN Ok(<<>>)
    ELSE IF contains(part, "-") THEN
        IF Len(split(part, "-")) # 2
        THEN Err([message |-> "Invalid range format", text |-> part])
        ELSE range_of(part, parse_i32(trim(split(part, "-")[1])),
                            parse_i32(trim(split(part, "-")[2])))
    ELSE single_of(part, parse_i32(part))

\* one part's outcome, then the parts after it
RECURSIVE parse_parts(_, _)
after_part(outcome, parts, days) ==
    IF ~outcome.ok THEN outcome ELSE parse_parts(Tail(parts), days \o outcome.value)

parse_parts(parts, days) ==
    IF parts = <<>> THEN Ok(days)
    ELSE after_part(parse_part(trim(Head(parts))), parts, days)

\* variant: the days in the order collected
collected_unsorted(outcome) ==
    IF ~outcome.ok THEN outcome
    ELSE IF outcome.value = <<>> THEN Err([message |-> "at least one day"])
    ELSE Ok(outcome.value)

\* the days collected, sorted and without repeats
collected(outcome) ==
    IF ~outcome.ok THEN outcome
    ELSE IF outcome.value = <<>> THEN Err([message |-> "at least one day"])
    ELSE Ok(dedup(sort(outcome.value)))

parse_day_range(input) ==
    IF trim(input) = <<>> THEN Err([message |-> "at least one day"])
    ELSE collected(parse_parts(split(trim(input), ","), <<>>))

\* format!("{}", n) of an i32
RECURSIVE to_string(_)
to_string(n) ==
    IF n < 0 THEN <<"-">> \o to_string(0 - n)
    ELSE IF n < 10 THEN <<DecimalDigits[n + 1]>>
    ELSE to_string(n \div 10) \o <<DecimalDigits[(n % 10) + 1]>>

\* variant: a range is rendered by its start alone
range_text_start_only(range_start, range_end) == to_string(range_start)

\* the text of one closed range
range_text(range_start, range_end) ==
    IF range_start = range_end THEN to_string(range_start)
    ELSE to_string(range_start) \o <<"-">> \o to_string(range_end)

\* variant: a range is closed after two days
RECURSIVE format_ranges_pairs(_, _, _, _)
format_ranges_pairs(rest, range_start, range_end, ranges) ==
    IF rest = <<>> THEN Append(ranges, range_text(range_start, range_end))
    ELSE IF Head(rest) = range_end + 1 /\ range_start = range_end
    THEN format_ranges_pairs(Tail(rest), range_start, Head(rest), ranges)
    ELSE format_ranges_pairs(Tail(rest), Head(rest), Head(rest),
                             Append(ranges, range_text(range_start, range_end)))

\* the loop over sorted_days[1..] and the closing of the last range
RECURSIVE format_ranges(_, _, _, _)
format_ranges(rest, range_start, range_end, ranges) ==
    IF rest = <<>> THEN Append(ranges, range_text(range_start, range_end))
    ELSE IF Head(rest) = range_end + 1
    THEN format_ranges(Tail(rest), range_start, Head(rest), ranges)
    ELSE format_ranges(Tail(rest), Head(rest), Head(rest),
                       Append(ranges, range_text(range_start, range_end)))

\* [String]::join
RECURSIVE join(_, _)
join(strings, sep) ==
    IF strings = <<>> THEN <<>>
    ELSE IF Len(strings) = 1 THEN strings[1]
    ELSE strings[1] \o sep \o join(Tail(strings), sep)

\* the ranges of a sorted list without repeats, joined
format_sorted(sorted_days) ==
    join(format_ranges(Tail(sorted_days), sorted_days[1], sorted_days[1], <<>>), <<",", " ">>)

format_day_range(days) ==
    IF days = <<>> THEN <<>> ELSE format_sorted(dedup(sort(days)))

-----------------------------------------------------------------------------
(* tasks.rs: the defaults a new task starts from                           *)

DaysOfWeek(on, time) ==
    [sunday |-> "Sun" \in on, monday |-> "Mon" \in on, tuesday |-> "Tue" \in on,
     wednesday |-> "Wed" \in on, thursday |-> "Thu" \in on, friday |-> "Fri" \in on,
     saturday |-> "Sat" \in on, time |-> time]

default_n_days == [days |-> 1, time |-> HM(9, 0)]

default_n_weeks == [weeks |-> 1, sub_schedule |-> DaysOfWeek({"Mon"}, HM(9, 0))]

default_monthwise == [days |-> <<1>>, time |-> HM(9, 0)]

default_weeks_of_month == [weeks |-> <<1>>, sub_schedule |-> DaysOfWeek({"Mon"}, HM(9, 0))]

default_certain_months == [months |-> <<1>>, days |-> <<1>>, time |-> HM(9, 0)]

DefaultAlertingTime == 1440

create_default_task(at) ==
    [schedule_kind  |-> "Once",
     n_days         |-> default_n_days,
     n_weeks        |-> default_n_weeks,
     monthwise      |-> default_monthwise,
     weeks_of_month |-> default_weeks_of_month,
     certain_months |-> default_certain_months,
     once           |-> [datetime |-> at],
     alerting_time  |-> DefaultAlertingTime,
     completeable   |-> TRUE,
     created_at     |-> None,
     deleted_at     |-> None]

-----------------------------------------------------------------------------
(* bounded inputs                                                          *)

\* the evaluation instants swept: SweepDays days from 2024-01-25 on, which
\* cross the ends of January, of February (a leap one) and of March
SweepDays == 72

FirstDay == DaysFromCivil(2024, 1, 25)

Clock == {HM(3, 30), HM(9, 0), HM(14, 0), HM(22, 30)}

SweepNows == {Days(d) + c : d \in FirstDay .. FirstDay + SweepDays, c \in Clock}

\* every FewStep-th of those days, for the inputs varied beside the instant
FewStep == 9

FewNows == {Days(d) + c : d \in {e \in FirstDay .. FirstDay + SweepDays :
                                    (e - FirstDay) % FewStep = 0}, c \in Clock}

Zones == {FixedOffset(0 - 300), UTC, FixedOffset(330)}

Kinds == {"NDays", "NWeeks", "Monthwise", "WeeksOfMonth", "CertainMonths", "Once"}

\* the largest interval of an EveryNDays schedule, one more than the look-back
MaxNDays == 61

NDaysSettings ==
    {[days |-> 1, time |-> HM(9, 0)], [days |-> 1, time |-> HM(12, 0)],
     [days |-> 3, time |-> HM(10, 0)], [days |-> 7, time |-> HM(18, 0)],
     [days |-> MaxNDays, time |-> HM(9, 0)]}

MaxWeeks == 2

NWeeksSettings ==
    {[weeks |-> w, sub_schedule |-> d] :
        w \in 1 .. MaxWeeks,
        d \in {DaysOfWeek({"Mon"}, HM(9, 0)), DaysOfWeek({"Wed"}, HM(11, 0)),
               DaysOfWeek({"Tue", "Thu"}, HM(14, 0))}}

MonthwiseSettings ==
    {[days |-> <<1>>, time |-> HM(9, 0)], [days |-> <<15>>, time |-> HM(9, 0)],
     [days |-> <<1, 15>>, time |-> HM(15, 0)], [days |-> <<31>>, time |-> HM(9, 0)],
     [days |-> <<30, 28, 29>>, time |-> HM(23, 0)]}

WeeksOfMonthSettings ==
    {[weeks |-> <<1>>, sub_schedule |-> DaysOfWeek({"Mon"}, HM(9, 0))],
     [weeks |-> <<2, 4>>, sub_schedule |-> DaysOfWeek({"Fri"}, HM(17, 0))],
     [weeks |-> <<1, 3>>, sub_schedule |-> DaysOfWeek({"Tue", "Thu"}, HM(13, 0))],
     [weeks |-> <<5>>, sub_schedule |-> DaysOfWeek({"Mon"}, HM(9, 0))]}

CertainMonthsSettings ==
    {[months |-> <<2, 3, 4, 5>>, days |-> <<1, 15>>, time |-> HM(9, 0)]}

\* schedules whose occurrences are far apart or that have none: no active
\* weekday, one day a year, a day no selected month has
SparseNWeeksSettings == {[weeks |-> 1, sub_schedule |-> DaysOfWeek({}, HM(9, 0))]}

SparseCertainMonthsSettings ==
    {[months |-> <<1>>, days |-> <<1>>, time |-> HM(9, 0)],
     [months |-> <<2, 3>>, days |-> <<15, 20>>, time |-> HM(9, 0)],
     [months |-> <<2>>, days |-> <<30>>, time |-> HM(9, 0)]}

OnceOffsets == {0 - Days(1), 0 - 60, 0, 60, Days(2)}

\* the tasks of one schedule kind each, built on the defaults at instant `at`
TasksAt(at) ==
    LET base == create_default_task(at - Days(1))
    IN       {[base EXCEPT !.schedule_kind = "NDays", !.n_days = s] : s \in NDaysSettings}
        \cup {[base EXCEPT !.schedule_kind = "NWeeks", !.n_weeks = s] : s \in NWeeksSettings}
        \cup {[base EXCEPT !.schedule_kind = "Monthwise", !.monthwise = s] :
                 s \in MonthwiseSettings}
        \cup {[base EXCEPT !.schedule_kind = "WeeksOfMonth", !.weeks_of_month = s] :
                 s \in WeeksOfMonthSettings}
        \cup {[base EXCEPT !.schedule_kind = "CertainMonths", !.certain_months = s] :
                 s \in CertainMonthsSettings}
        \cup {[base EXCEPT !.once = [datetime |-> at + o]] : o \in OnceOffsets}

\* validity windows (created_at, deleted_at) around `at`
WindowsAt(at) ==
    {<<None, None>>,
     <<Some(at + 1), None>>, <<Some(at), None>>, <<Some(at - Days(2)), None>>,
     <<Some(at + Days(3)), None>>,
     <<None, Some(at - 1)>>, <<None, Some(at)>>, <<None, Some(at - Days(1))>>,
     <<None, Some(at + Days(2))>>,
     <<Some(at - Days(9)), Some(at + Days(9))>>}

AlertingTimes == {0, 60, 1440, 10080}

\* alert windows (minutes) around the 10000 days of the sentinel
SentinelAlertingTimes ==
    {Days(DistantFutureThreshold), Days(DistantFutureDays) - 1, Days(DistantFutureDays),
     Days(DistantFutureDays) + 60}

\* completion lists, in the order given, around `at`
CompletionListsAt(at) ==
    {<<>>, <<at>>, <<at - Days(1)>>, <<at - Days(3), at - 30>>, <<at - 30, at - Days(3)>>,
     <<at - Days(70)>>, <<at - Days(2), at - Days(8), at - Days(5)>>}

SparseTasksAt(at) ==
    LET base == create_default_task(at - Days(1))
    IN       {[base EXCEPT !.schedule_kind = "NWeeks", !.n_weeks = s] :
                 s \in SparseNWeeksSettings}
        \cup {[base EXCEPT !.schedule_kind = "CertainMonths", !.certain_months = s] :
                 s \in SparseCertainMonthsSettings}

NoView == [op |-> "none"]

\* no text or form submitted
NoForm == [kind |-> "none"]

\* the zone was set at startup and no call on it is in progress
Configured == APP_TIMEZONE = Some(tz) /\ threads = <<>>

\* the first Sunday on or after a date
FirstSundayOnOrAfter(date) == date + ((7 - ((date + 4) % 7)) % 7)

\* America/New_York: daylight time from the second Sunday of March, 02:00
\* standard time, to the first Sunday of November, 02:00 daylight time
NewYork ==
    [standard |-> 0 - 300,
     daylight |-> 0 - 240,
     periods  |-> {<<Days(FirstSundayOnOrAfter(DaysFromCivil(y, 3, 8))) + HM(7, 0),
                     Days(FirstSundayOnOrAfter(DaysFromCivil(y, 11, 1))) + HM(6, 0)>> :
                      y \in 2022 .. 2027}]

\* the local days around the two transitions of 2024: 02:00 - 03:00 of March 10
\* does not exist, 01:00 - 02:00 of November 3 happens twice
TransitionDays ==
    (DaysFromCivil(2024, 3, 8) .. DaysFromCivil(2024, 3, 12))
        \cup (DaysFromCivil(2024, 11, 1) .. DaysFromCivil(2024, 11, 5))

TransitionNows == {Days(d) + c : d \in TransitionDays, c \in {HM(5, 10), HM(6, 40), HM(16, 0)}}

\* wall-clock times inside the gap, inside the fold, and outside both
TransitionTimes == {HM(1, 30), HM(2, 30), HM(9, 0)}

\* schedules without any occurrence, and intervals that are not positive
DegenerateTasksAt(at) ==
    LET base == create_default_task(at - Days(1))
    IN  {[base EXCEPT !.schedule_kind = "NWeeks",
                      !.n_weeks = [weeks |-> 1, sub_schedule |-> DaysOfWeek({}, HM(9, 0))]],
         [base EXCEPT !.schedule_kind = "Monthwise",
                      !.monthwise = [days |-> <<>>, time |-> HM(9, 0)]],
         [base EXCEPT !.schedule_kind = "WeeksOfMonth",
                      !.weeks_of_month = [weeks |-> <<>>,
                                          sub_schedule |-> DaysOfWeek({"Mon"}, HM(9, 0))]],
         [base EXCEPT !.schedule_kind = "CertainMonths",
                      !.certain_months = [months |-> <<>>, days |-> <<1>>, time |-> HM(9, 0)]],
         [base EXCEPT !.schedule_kind = "CertainMonths",
                      !.certain_months = [months |-> <<2>>, days |-> <<30>>, time |-> HM(9, 0)]],
         [base EXCEPT !.schedule_kind = "NDays", !.n_days = [days |-> 0, time |-> HM(9, 0)]],
         [base EXCEPT !.schedule_kind = "NDays", !.n_days = [days |-> 0 - 2, time |-> HM(9, 0)]]}

\* one task of every kind with the given time of day
TimedTasksAt(at, time) ==
    LET base == create_default_task(at - Days(1))
    IN  {[base EXCEPT !.schedule_kind = "NDays", !.n_days = [days |-> 1, time |-> time]],
         [base EXCEPT !.schedule_kind = "NWeeks",
                      !.n_weeks = [weeks |-> 1, sub_schedule |-> DaysOfWeek({"Sun"}, time)]],
         [base EXCEPT !.schedule_kind = "Monthwise",
                      !.monthwise = [days |-> <<3, 10>>, time |-> time]],
         [base EXCEPT !.schedule_kind = "WeeksOfMonth",
                      !.weeks_of_month = [weeks |-> <<1, 2>>,
                                          sub_schedule |-> DaysOfWeek({"Sun"}, time)]],
         [base EXCEPT !.schedule_kind = "CertainMonths",
                      !.certain_months = [months |-> <<3, 11>>, days |-> <<3, 10>>,
                                          time |-> time]]}

-----------------------------------------------------------------------------
(* the status functions of DemoTask, applied to bounded inputs             *)

\* every instant of the sweep, in UTC
InitSweep ==
    /\ now \in SweepNows
    /\ tz = UTC
    /\ task \in TasksAt(now)
    /\ completions = <<>>

\* zones east and west of UTC, where the local date differs from the UTC date
InitZones ==
    /\ now \in FewNows
    /\ tz \in Zones
    /\ task \in TasksAt(now)
    /\ completions = <<>>

InitSparse ==
    /\ now \in FewNows
    /\ tz \in Zones
    /\ task \in SparseTasksAt(now)
    /\ completions = <<>>

InitWindows ==
    /\ now \in {n \in FewNows : n % MinutesPerDay \in {HM(9, 0), HM(22, 30)}}
    /\ tz = UTC
    /\ \E t \in TasksAt(now), w \in WindowsAt(now) :
           task = [t EXCEPT !.created_at = w[1], !.deleted_at = w[2]]
    /\ completions = <<>>

\* alerting times, and Once parameters left inert under another kind
InitAlerting ==
    /\ now \in FewNows
    /\ tz = UTC
    /\ \E t \in TasksAt(now), a \in AlertingTimes, k \in Kinds :
           /\ t.schedule_kind # "Once" => k = t.schedule_kind
           /\ k # "Once" => a = DefaultAlertingTime
           /\ task = [t EXCEPT !.alerting_time = a, !.schedule_kind = k]
    /\ completions = <<>>

InitCompletions ==
    /\ now \in FewNows
    /\ tz = UTC
    /\ \E t \in TasksAt(now), c \in BOOLEAN : task = [t EXCEPT !.completeable = c]
    /\ completions \in CompletionListsAt(now)

\* schedules without an occurrence ahead, under alert windows up to and beyond
\* the distance of the sentinel
InitSentinel ==
    /\ now \in FewNows
    /\ tz = UTC
    /\ \E t \in SparseTasksAt(now), a \in SentinelAlertingTimes, c \in BOOLEAN :
           task = [t EXCEPT !.alerting_time = a, !.completeable = c]
    /\ completions = <<>>

\* one-time events (chores that cannot be completed) whose instant lies up to
\* three days behind or an hour ahead, with completions on record
EventOffsets == {0 - Days(3), 0 - Days(1) - 1, 0 - Days(1), 0 - 60, 0, 60}

InitEvents ==
    /\ now \in FewNows
    /\ tz = UTC
    /\ \E o \in EventOffsets :
           task = [create_default_task(now - Days(5)) EXCEPT
                       !.schedule_kind = "Once",
                       !.once = [datetime |-> now + o],
                       !.completeable = FALSE]
    /\ completions \in CompletionListsAt(now)

\* tasks not yet created or deleted a day ago, with a completion on record
\* later than the most recent occurrence
InitInactive ==
    /\ now \in {n \in FewNows : n % MinutesPerDay = HM(14, 0)}
    /\ tz = UTC
    /\ \E t \in TasksAt(now), c \in BOOLEAN,
          w \in {<<Some(now + Days(3)), None>>, <<None, Some(now - Days(1))>>} :
           task = [t EXCEPT !.completeable = c, !.created_at = w[1], !.deleted_at = w[2]]
    /\ completions \in {<<now>>, <<now - 30>>}

InitDue ==
    /\ \/ InitInactive \/ InitSweep \/ InitZones \/ InitSparse \/ InitWindows
       \/ InitAlerting \/ InitCompletions \/ InitSentinel \/ InitEvents
    /\ local = tz
    /\ form = NoForm
    /\ view = NoView
    /\ Configured

\* one rendering of the task: every status function and the home page list
Render ==
    /\ view = NoView
    /\ view' = [op                |-> "homepage",
                next_due          |-> next_due_date(task, now, tz).value,
                most_recent_due   |-> most_recent_due_date(task, now, tz).value,
                is_due            |-> is_due(task, now, tz),
                is_alerting       |-> is_alerting(task, now, tz),
                is_distant_future |-> is_distant_future(task, now, tz),
                is_inactive       |-> is_inactive(task, now),
                is_once_completed |-> is_once_completed(task, now),
                latest_completion |-> get_latest_completion(completions),
                category          |-> homepage(task, completions, now, tz)]
    /\ UNCHANGED <<now, tz, local, task, completions, form, APP_TIMEZONE, threads>>

\* the Schedule and the Task (schedule.rs, task.rs) holding the same variant
\* parameters and completion list
ScheduleOf(t) ==
    [kind           |-> t.schedule_kind,
     n_days         |-> t.n_days,
     n_weeks        |-> t.n_weeks,
     monthwise      |-> t.monthwise,
     weeks_of_month |-> t.weeks_of_month,
     certain_months |-> t.certain_months,
     once           |-> t.once]

TaskOf(t, rows) ==
    [schedule      |-> ScheduleOf(t),
     completions   |-> Some(rows),
     alerting_time |-> Some(t.alerting_time)]

\* one evaluation of Task: its schedule's most recent due date, its last
\* completion and whether it is due
Evaluate ==
    /\ view = NoView
    /\ view' = [op              |-> "schedule",
                most_recent_due |-> ScheduleMostRecentDueDate(ScheduleOf(task), now, local),
                last_completion |-> TaskLastCompletion(TaskOf(task, completions)),
                is_due          |-> TaskIsDue(TaskOf(task, completions), now, local)]
    /\ UNCHANGED <<now, tz, local, task, completions, form, APP_TIMEZONE, threads>>

NextDue == Render \/ Evaluate

SpecDue == InitDue /\ [][NextDue]_vars

-----------------------------------------------------------------------------
(* the two due-date searches under a zone with daylight time, and on        *)
(* degenerate schedules                                                     *)

\* a Once task whose instant is `at` shifted by a few hours either way
OnceTasksAt(at) ==
    {[create_default_task(at + Minutes(o)) EXCEPT !.completeable = FALSE] :
        o \in {0 - 600, 0 - 180, 0 - 90, 180}}

InitZone ==
    /\ now \in TransitionNows
    /\ \/ /\ tz \in {NewYork, UTC}
          /\ task \in (UNION {TimedTasksAt(now, time) : time \in TransitionTimes})
                        \cup OnceTasksAt(now)
       \/ /\ tz = NewYork
          /\ task \in DegenerateTasksAt(now)
    /\ local = tz
    /\ completions = <<>>
    /\ form = NoForm
    /\ view = NoView
    /\ Configured

\* one call of DemoTask::next_due_date
CallNextDueDate ==
    /\ view = NoView
    /\ view' = [op |-> "next_due_date", result |-> next_due_date(task, now, tz)]
    /\ UNCHANGED <<now, tz, local, task, completions, form, APP_TIMEZONE, threads>>

\* one call of DemoTask::most_recent_due_date
CallMostRecentDueDate ==
    /\ view = NoView
    /\ view' = [op |-> "most_recent_due_date", result |-> most_recent_due_date(task, now, tz)]
    /\ UNCHANGED <<now, tz, local, task, completions, form, APP_TIMEZONE, threads>>

NextZone == CallNextDueDate \/ CallMostRecentDueDate

SpecZone == InitZone /\ [][NextZone]_vars

-----------------------------------------------------------------------------
(* what the specification calls an occurrence, stated apart from the code  *)

Elements(v) == {v[i] : i \in DOMAIN v}

ActiveWeekdays(d) ==
         (IF d.sunday THEN {"Sun"} ELSE {}) \cup (IF d.monday THEN {"Mon"} ELSE {})
    \cup (IF d.tuesday THEN {"Tue"} ELSE {}) \cup (IF d.wednesday THEN {"Wed"} ELSE {})
    \cup (IF d.thursday THEN {"Thu"} ELSE {}) \cup (IF d.friday THEN {"Fri"} ELSE {})
    \cup (IF d.saturday THEN {"Sat"} ELSE {})

\* matches(date) of the active variant; `today` is the local date of evaluation
SpecMatches(kind, t, date, today, zone) ==
    CASE kind = "NDays" -> (date - today) % t.n_days.days = 0
      [] kind = "NWeeks" -> WeekdayOf(date) \in ActiveWeekdays(t.n_weeks.sub_schedule)
      [] kind = "Monthwise" -> Calendar[date].day \in Elements(t.monthwise.days)
      [] kind = "WeeksOfMonth" ->
            /\ WeekdayOf(date) \in ActiveWeekdays(t.weeks_of_month.sub_schedule)
            /\ \E w \in Elements(t.weeks_of_month.weeks) :
                   Calendar[date].day \in (7 * (w - 1) + 1) .. (7 * w)
      [] kind = "CertainMonths" ->
            /\ Calendar[date].month \in Elements(t.certain_months.months)
            /\ Calendar[date].day \in Elements(t.certain_months.days)
      [] kind = "Once" -> date = DateNaive(zone, t.once.datetime)

\* time_of_day of the active variant
SpecTimeOfDay(kind, t, zone) ==
    CASE kind = "NDays" -> t.n_days.time
      [] kind = "NWeeks" -> t.n_weeks.sub_schedule.time
      [] kind = "Monthwise" -> t.monthwise.time
      [] kind = "WeeksOfMonth" -> t.weeks_of_month.sub_schedule.time
      [] kind = "CertainMonths" -> t.certain_months.time
      [] kind = "Once" -> TimeOf(zone, t.once.datetime)

\* the instant of the occurrence on a local date
OccurrenceOn(t, date, zone) ==
    FromLocalDatetime(zone, date, SpecTimeOfDay(t.schedule_kind, t, zone))

\* the date lies in the validity window of the task
InWindow(t, date, zone) ==
    /\ \A c \in t.created_at : date >= DateNaive(zone, c)
    /\ \A d \in t.deleted_at : date <= DateNaive(zone, d)

Today == DateNaive(tz, now)

VariantMatch(date) == SpecMatches(task.schedule_kind, task, date, Today, tz)

WindowMatch(date) == InWindow(task, date, tz) /\ VariantMatch(date)

Rendered == view.op = "homepage"

Evaluated == view.op = "schedule"

\* if a matching date of the forward horizon has its occurrence after now,
\* r is the earliest such occurrence
EarliestAfterNow(r, windowed) ==
    LET match(d) == IF windowed THEN WindowMatch(d) ELSE VariantMatch(d)
        later(d) == match(d) /\ OccurrenceOn(task, d, tz) > now
    IN  (\E d \in Today .. Today + ForwardHorizon : later(d)) =>
            /\ r > now
            /\ \E d \in Today .. Today + ForwardHorizon :
                   /\ later(d)
                   /\ r = OccurrenceOn(task, d, tz)
                   /\ \A e \in Today .. (d - 1) : ~later(e)

-----------------------------------------------------------------------------
(* C2 *)

\* C2 as claimed: for a non-Once schedule with an occurrence in the forward
\* horizon, next_due_date is the earliest occurrence strictly after now, an
\* occurrence being any date the variant's predicate matches.
C2_NextDueEarliestOfVariant ==
    (Rendered /\ task.schedule_kind # "Once") =>
        EarliestAfterNow(view.next_due, FALSE)

\* C2 amended: for a non-Once schedule with an occurrence in the forward
\* horizon on a date inside the task's validity window (not before the local
\* date of created_at, not after that of deleted_at), next_due_date is the
\* earliest such occurrence strictly after now: today's when today matches
\* and its time has not elapsed, else that of the first later matching date;
\* an occurrence equal to now is skipped.
C2_NextDueEarliestInWindow ==
    (Rendered /\ task.schedule_kind # "Once") =>
        EarliestAfterNow(view.next_due, TRUE)

\* today's occurrence is exactly now and is skipped for a later one, inside
\* a validity window that is set
C2_Witness ==
    /\ Rendered
    /\ task.schedule_kind # "Once"
    /\ task.deleted_at # None
    /\ WindowMatch(Today)
    /\ OccurrenceOn(task, Today, tz) = now
    /\ view.next_due > now
    /\ view.next_due < now + Days(ForwardHorizon)

-----------------------------------------------------------------------------
(* C4 *)

BackwardMatchFound ==
    \E d \in (Today - BackwardHorizon) .. Today :
        WindowMatch(d) /\ OccurrenceOn(task, d, tz) <= now

DateMatchesVariant(kind, r, zone) ==
    /\ TimeOf(zone, r) = SpecTimeOfDay(kind, task, zone)
    /\ SpecMatches(kind, task, DateNaive(zone, r),
                   DateNaive(zone, now), zone)

DateKinds == {"NWeeks", "Monthwise", "WeeksOfMonth", "CertainMonths"}

\* C4: whenever the backward search finds a match, the instant returned by
\* most_recent_due_date has, in the local zone, the configured wall-clock
\* time and a date satisfying the active variant's predicate (DemoTask's
\* search and the per-variant searches of Schedule alike).
C4_MostRecentDueOnMatchingDate ==
    /\ (Rendered /\ BackwardMatchFound) =>
           DateMatchesVariant(task.schedule_kind, view.most_recent_due, tz)
    /\ (Evaluated /\ task.schedule_kind \in DateKinds /\ view.most_recent_due # now) =>
           DateMatchesVariant(task.schedule_kind, view.most_recent_due, local)

\* a WeeksOfMonthDays search that went back past today, in a zone off UTC
C4_Witness ==
    /\ Rendered
    /\ task.schedule_kind = "WeeksOfMonth"
    /\ tz # UTC
    /\ BackwardMatchFound
    /\ DateNaive(tz, view.most_recent_due) < Today

-----------------------------------------------------------------------------
(* C6 *)

\* C6: for a Once schedule next_due_date is its instant T whatever now is,
\* and is_once_completed holds iff the kind is Once and now >= T.
C6_OnceNextDueAndCompleted ==
    Rendered =>
        /\ task.schedule_kind = "Once" => view.next_due = task.once.datetime
        /\ view.is_once_completed <=>
               (task.schedule_kind = "Once" /\ now >= task.once.datetime)

\* a Once schedule evaluated exactly at its instant
C6_Witness ==
    /\ Rendered
    /\ task.schedule_kind = "Once"
    /\ task.once.datetime = now
    /\ view.next_due = now
    /\ view.is_once_completed

-----------------------------------------------------------------------------
(* C9, C10 *)

OutsideWindow ==
    \/ \E c \in task.created_at : now < c
    \/ \E d \in task.deleted_at : now > d

\* C9: is_alerting is false for an inactive chore and otherwise holds iff
\* now < NextDue(now) <= now + alerting_time; never with alerting_time = 0.
C9_AlertingWindow ==
    Rendered =>
        /\ OutsideWindow => ~view.is_alerting
        /\ ~OutsideWindow =>
               (view.is_alerting <=>
                    (now < view.next_due /\ view.next_due <= now + task.alerting_time))
        /\ task.alerting_time = 0 => ~view.is_alerting

\* the next occurrence is exactly alerting_time away, and the chore alerts
C9_Witness ==
    /\ Rendered
    /\ ~OutsideWindow
    /\ task.alerting_time > 0
    /\ view.next_due = now + task.alerting_time
    /\ view.is_alerting

\* C10: is_inactive holds iff created_at is set and now < created_at, or
\* deleted_at is set and now > deleted_at; an inactive chore is neither due
\* nor alerting, whatever its schedule.
C10_InactiveWindow ==
    Rendered =>
        /\ view.is_inactive <=> OutsideWindow
        /\ view.is_inactive => (~view.is_due /\ ~view.is_alerting)

\* a Once chore whose instant has passed, created in the future
C10_Witness ==
    /\ Rendered
    /\ task.schedule_kind = "Once"
    /\ task.once.datetime < now
    /\ \E c \in task.created_at : now < c
    /\ view.is_inactive
    /\ ~view.is_due

\* now = created_at, resp. now = deleted_at: active
C10_BoundaryActive ==
    /\ Rendered
    /\ (now \in task.created_at \/ now \in task.deleted_at)
    /\ ~view.is_inactive

-----------------------------------------------------------------------------
(* C1, C3, C5: the most recent due date                                    *)

LocalToday == DateNaive(local, now)

LocalMatch(date) == SpecMatches(task.schedule_kind, task, date, LocalToday, local)

\* r is an occurrence not after now, on a date of the look-back horizon, and
\* no occurrence lies in (r, now]
LatestNotAfterNow(r, today, zone) ==
    LET past(d) == LocalMatch(d) /\ OccurrenceOn(task, d, zone) <= now
    IN  /\ r <= now
        /\ \E d \in (today - BackwardHorizon) .. today :
               /\ past(d)
               /\ r = OccurrenceOn(task, d, zone)
               /\ \A e \in (d + 1) .. today : ~past(e)

\* C1 as claimed, for the searches of Schedule: for a non-Once schedule with a
\* matching date inside the look-back horizon, most_recent_due_date is an
\* occurrence D <= now with no occurrence in (D, now]; when no scheduled
\* day-of-month precedes today, the occurrence of the preceding month.
C1_MostRecentDueIsLatest ==
    (/\ Evaluated
     /\ task.schedule_kind # "Once"
     /\ \E d \in (LocalToday - BackwardHorizon) .. LocalToday :
            LocalMatch(d) /\ OccurrenceOn(task, d, local) <= now) =>
        LatestNotAfterNow(view.most_recent_due, LocalToday, local)

\* C3 as claimed: for every schedule kind and every now the instant returned
\* by most_recent_due_date is <= now, fallback included.
C3_MostRecentDueNotAfterNow ==
    (Rendered \/ Evaluated) => view.most_recent_due <= now

\* C5: for an EveryNWeeks schedule with weeks = w >= 1 and an active weekday,
\* Schedule's most_recent_due_date is never after now nor more than 7*w days
\* before it, and falls on an active weekday at the configured time.
C5_NWeeksWithinSpan ==
    (/\ Evaluated
     /\ task.schedule_kind = "NWeeks"
     /\ ActiveWeekdays(task.n_weeks.sub_schedule) # {}) =>
        /\ view.most_recent_due <= now
        /\ now - view.most_recent_due <= Days(7 * task.n_weeks.weeks)
        /\ WeekdayOf(DateNaive(local, view.most_recent_due))
               \in ActiveWeekdays(task.n_weeks.sub_schedule)
        /\ TimeOf(local, view.most_recent_due) = task.n_weeks.sub_schedule.time

\* every other Wednesday, evaluated on a Wednesday before the time of day:
\* the occurrence of a week earlier
C5_Witness ==
    /\ Evaluated
    /\ task.schedule_kind = "NWeeks"
    /\ task.n_weeks.weeks = 2
    /\ ActiveWeekdays(task.n_weeks.sub_schedule) = {"Wed"}
    /\ DateNaive(local, view.most_recent_due) = LocalToday - 7

-----------------------------------------------------------------------------
(* C7, C8: due and completed                                               *)

LatestOf(rows) == CHOOSE m \in Elements(rows) : \A c \in Elements(rows) : c <= m

\* C7 as claimed: an active, completeable chore is due (is_due, Due Tasks)
\* exactly when its most recent due date is a real past occurrence and no
\* completion is later than it.
C7_DueIffLastOccurrenceUncompleted ==
    (Rendered /\ ~OutsideWindow /\ task.completeable) =>
        ((view.is_due /\ view.category = "due") <=>
            (/\ BackwardMatchFound
             /\ \A c \in Elements(completions) : c <= view.most_recent_due))

\* C8 as claimed: a chore is completed iff its latest completion is strictly
\* after MostRecentDue(now); last_completion returns the latest completion,
\* and a completion with an earlier timestamp appended to the list changes
\* neither.
C8_LatestCompletionDecides ==
    /\ (Rendered /\ ~OutsideWindow /\ task.completeable) =>
           (view.category = "completed" <=>
                (completions # <<>> /\ LatestOf(completions) > view.most_recent_due))
    /\ (Evaluated /\ completions # <<>>) =>
           /\ view.last_completion = {LatestOf(completions)}
           /\ TaskLastCompletion(TaskOf(task, Append(completions, LatestOf(completions) - 1)))
                  = view.last_completion

-----------------------------------------------------------------------------
(* the day range texts of the editor: texts composed of pieces separated   *)
(* by commas, and day lists                                                *)

\* a piece of text with what it stands for: the days it denotes, or the error
\* it is to be refused with, or nothing at all (a blank)
Denoting(chars, days) == [chars |-> chars, denotes |-> days, fault |-> None]

Refused(chars, error) == [chars |-> chars, denotes |-> {}, fault |-> Some(error)]

Blank(chars) == [chars |-> chars, denotes |-> {}, fault |-> None]

OutOfRange(day) == [message |-> "out of range", day |-> day]

InvalidNumber(text) == [message |-> "Invalid number", text |-> text]

\* the pieces combined up to MaxPieces at a time
FewPieces ==
    {Denoting(<<"1">>, {1}), Denoting(<<"3">>, {3}), Denoting(<<"2", "-", "4">>, 2 .. 4),
     Denoting(<<" ", "1", "5", " ">>, {15}), Blank(<<>>), Blank(<<" ">>),
     Refused(<<"3", "2">>, OutOfRange(32)), Refused(<<"x">>, InvalidNumber(<<"x">>))}

\* the pieces combined up to two at a time
MorePieces ==
    {Denoting(<<"5", "-", "5">>, {5}), Denoting(<<"1", "-", "5">>, 1 .. 5),
     Denoting(<<"3", "-", "7">>, 3 .. 7), Denoting(<<" ", "1", " ", "-", " ", "5", " ">>, 1 .. 5),
     Denoting(<<"1", "0">>, {10}), Denoting(<<"3", "1">>, {31}),
     Denoting(<<"2", "8", "-", "3", "1">>, 28 .. 31), Denoting(<<"1", "-", "3", "1">>, 1 .. 31),
     Denoting(<<"0", "7">>, {7}), Denoting(<<"+", "9">>, {9}),
     Refused(<<"0">>, OutOfRange(0)), Refused(<<"1", "0", "0">>, OutOfRange(100)),
     Refused(<<"2", "8", "-", "3", "5">>, OutOfRange(32)),
     Refused(<<"0", "-", "5">>, OutOfRange(0)),
     Refused(<<"1", "0", "-", "5">>, [message |-> "start must be <= end"]),
     Refused(<<"4", "0", "-", "3", "5">>, [message |-> "start must be <= end"]),
     Refused(<<"1", "-", "x">>, InvalidNumber(<<"x">>)),
     Refused(<<"x", "-", "1">>, InvalidNumber(<<"x">>)),
     Refused(<<"1", " ", "2">>, InvalidNumber(<<"1", " ", "2">>)),
     Refused(<<"1", "-", "2", "-", "3">>, [message |-> "unspecified"]),
     Refused(<<"1", "-", "-", "3">>, [message |-> "unspecified"])}

MaxPieces == 3

PieceLists ==
    UNION {[1 .. n -> FewPieces] : n \in 0 .. MaxPieces}
        \cup UNION {[1 .. n -> FewPieces \cup MorePieces] : n \in 1 .. 2}

\* the pieces written one after the other with a comma between them
RECURSIVE Written(_)
Written(pieces) ==
    IF pieces = <<>> THEN <<>>
    ELSE IF Len(pieces) = 1 THEN pieces[1].chars
    ELSE pieces[1].chars \o <<",">> \o Written(Tail(pieces))

\* day lists in any order, with repeats
DayPool == {1, 2, 3, 5, 30, 31}

MaxDayList == 4

DayLists == UNION {[1 .. n -> DayPool] : n \in 0 .. MaxDayList}

InitText ==
    /\ \/ \E pieces \in PieceLists :
              form = [kind |-> "text", text |-> Written(pieces), pieces |-> pieces]
       \/ \E days \in DayLists : form = [kind |-> "days", days |-> days]
    /\ now = 0
    /\ tz = UTC
    /\ local = UTC
    /\ task = create_default_task(0)
    /\ completions = <<>>
    /\ view = NoView
    /\ Configured

\* the submitted text is parsed
ParseDayRange ==
    /\ form.kind = "text"
    /\ view = NoView
    /\ view' = [op |-> "parse_day_range", result |-> parse_day_range(form.text)]
    /\ UNCHANGED <<now, tz, local, task, completions, form, APP_TIMEZONE, threads>>

\* the editor renders a day list
FormatDayRange ==
    /\ form.kind = "days"
    /\ view = NoView
    /\ view' = [op |-> "format_day_range", days |-> form.days,
                text |-> format_day_range(form.days)]
    /\ UNCHANGED <<now, tz, local, task, completions, form, APP_TIMEZONE, threads>>

\* the editor renders the days a text was parsed to
FormatParsed ==
    /\ view.op = "parse_day_range"
    /\ view.result.ok
    /\ view' = [op |-> "format_day_range", days |-> view.result.value,
                text |-> format_day_range(view.result.value)]
    /\ UNCHANGED <<now, tz, local, task, completions, form, APP_TIMEZONE, threads>>

\* the rendered text is submitted back
Reparse ==
    /\ view.op = "format_day_range"
    /\ view' = [op |-> "reparse", days |-> view.days, text |-> view.text,
                result |-> parse_day_range(view.text)]
    /\ UNCHANGED <<now, tz, local, task, completions, form, APP_TIMEZONE, threads>>

NextText == ParseDayRange \/ FormatDayRange \/ FormatParsed \/ Reparse

SpecText == InitText /\ [][NextText]_vars

-----------------------------------------------------------------------------
(* C11 *)

Searched == view.op \in {"next_due_date", "most_recent_due_date"}

\* C11: for every schedule, degenerate ones included, and for a time of day
\* inside a daylight-saving gap or fold of the configured zone,
\* most_recent_due_date and next_due_date return an instant: neither panics.
C11_SearchReturnsInstant == Searched => view.result.ok

\* the searches that do return on degenerate schedules give their fallbacks
C11_DegenerateFallback ==
    (Searched /\ task \in DegenerateTasksAt(now) /\ task.schedule_kind # "NDays") =>
        view.result = Ok(IF view.op = "next_due_date" THEN now + Days(DistantFutureDays)
                         ELSE now - Days(BackwardHorizon))

-----------------------------------------------------------------------------
(* C12: the fallback of the backward search                                *)

\* the local dates the 7 * weeks days of look-back of Schedule's EveryNWeeks
\* cover, today included
NWeeksSpanMatch ==
    \E d \in (LocalToday - 7 * task.n_weeks.weeks) .. LocalToday :
        LocalMatch(d) /\ OccurrenceOn(task, d, local) <= now

-----------------------------------------------------------------------------
(* C13: the distant-future sentinel                                        *)

\* no date of the forward horizon has an occurrence after now
ForwardExhausted ==
    /\ task.schedule_kind # "Once"
    /\ ~\E d \in Today .. Today + ForwardHorizon :
            WindowMatch(d) /\ OccurrenceOn(task, d, tz) > now

\* C13: when the forward search finds no occurrence within its horizon,
\* next_due_date is a sentinel more than 1000 days after now that
\* is_distant_future recognises, and the chore is never classified as alerting
\* or due, whatever its alerting_time.
C13_SentinelNeverAlertingOrDue ==
    (Rendered /\ ForwardExhausted) =>
        /\ view.next_due > now + Days(1000)
        /\ view.is_distant_future
        /\ ~view.is_alerting
        /\ ~view.is_due
        /\ view.category \notin {"alerting", "due"}

\* the part of C13 that holds: the sentinel is recognised and is never due
C13_SentinelRecognised ==
    (Rendered /\ ForwardExhausted) =>
        /\ view.next_due = now + Days(10000)
        /\ view.is_distant_future
        /\ ~view.is_due
        /\ view.category # "due"

-----------------------------------------------------------------------------
(* C14 - C18: day range texts                                              *)

Parsed == view.op = "parse_day_range"

Formatted == view.op = "format_day_range"

Reparsed == view.op = "reparse"

\* the text is made of pieces that denote days, and blanks, with at least one
\* piece that is not a blank
ValidText ==
    /\ \A i \in DOMAIN form.pieces : form.pieces[i].fault = None
    /\ \E i \in DOMAIN form.pieces : form.pieces[i].denotes # {}

\* the union of the integers the pieces denote
Denoted == UNION {form.pieces[i].denotes : i \in DOMAIN form.pieces}

StrictlyAscending(v) == \A i \in 1 .. (Len(v) - 1) : v[i] < v[i + 1]

\* C14: for every valid day range text, parse_day_range gives a strictly
\* ascending list (sorted, no duplicates) holding exactly the union of the
\* integers its tokens denote, whatever their order, repeats and overlaps.
C14_ParsedIsSortedUnion ==
    (Parsed /\ ValidText) =>
        /\ view.result.ok
        /\ StrictlyAscending(view.result.value)
        /\ Elements(view.result.value) = Denoted

\* "3,2-4,1": out of order and overlapping
C14_Witness ==
    /\ Parsed
    /\ form.text = <<"3", ",", "2", "-", "4", ",", "1">>
    /\ view.result = Ok(<<1, 2, 3, 4>>)

\* C15: for every non-empty list d of days in 1..31, in any order and with
\* repeats, parsing the text format_day_range renders for d succeeds and
\* gives d sorted and without repeats; so does re-parsing the rendering of a
\* parsed list, which gives that list back.
C15_RoundTrip ==
    (Reparsed /\ view.days # <<>>) =>
        /\ view.result.ok
        /\ StrictlyAscending(view.result.value)
        /\ Elements(view.result.value) = Elements(view.days)
        /\ StrictlyAscending(view.days) => view.result.value = view.days

\* an unsorted list with a repeat, rendered "1-2, 30" and parsed back
C15_Witness ==
    /\ Reparsed
    /\ view.days = <<30, 1, 2, 1>>
    /\ view.text = <<"1", "-", "2", ",", " ", "3", "0">>
    /\ view.result = Ok(<<1, 2, 30>>)

\* the decimal numeral of a day
Numeral(n) ==
    IF n < 10 THEN <<DecimalDigits[n + 1]>>
    ELSE <<DecimalDigits[(n \div 10) + 1], DecimalDigits[(n % 10) + 1]>>

\* the maximal runs of consecutive integers of a set, in ascending order, each
\* written `start` or `start-end`, with ", " between them
RECURSIVE MinimalText(_)
MinimalText(S) ==
    IF S = {} THEN <<>>
    ELSE LET a    == CHOOSE x \in S : \A y \in S : x <= y
             b    == CHOOSE x \in S : /\ x >= a
                                      /\ \A y \in a .. x : y \in S
                                      /\ (x + 1) \notin S
             item == IF a = b THEN Numeral(a) ELSE Numeral(a) \o <<"-">> \o Numeral(b)
             rest == {x \in S : x > b}
         IN  IF rest = {} THEN item ELSE item \o <<",", " ">> \o MinimalText(rest)

\* C16: format_day_range renders the minimal representation of the set of its
\* input: one item per maximal run of consecutive integers, `start` for a run
\* of one and `start-end` for a longer one, ascending, joined by ", "; the
\* empty list gives the empty string.
C16_FormatIsMinimal ==
    Formatted => view.text = MinimalText(Elements(view.days))

\* [5, 3, 1, 2] is rendered "1-3, 5"
C16_Witness ==
    /\ Formatted
    /\ view.days = <<5, 3, 1, 2>>
    /\ view.text = <<"1", "-", "3", ",", " ", "5">>

\* C17: parse_day_range returns Ok exactly when the input has at least one
\* non-empty token and every non-empty token is a single integer in 1..31 or
\* a range a-b with 1 <= a <= b <= 31, blanks around tokens and around '-'
\* being ignored and empty tokens skipped; any other input is an error.
C17_OkIffValid ==
    Parsed => (view.result.ok <=> ValidText)

\* a padded token between two empty ones
C17_Witness ==
    /\ Parsed
    /\ Len(form.pieces) = 3
    /\ form.pieces[1] = Blank(<<" ">>)
    /\ form.pieces[2] = Denoting(<<" ", "1", "5", " ">>, {15})
    /\ form.pieces[3] = Blank(<<>>)
    /\ view.result = Ok(<<15>>)

\* the error a text that is not valid is to be refused with: that of its first
\* offending piece, or the lack of any day
ExpectedError ==
    IF \A i \in DOMAIN form.pieces : form.pieces[i].fault = None
    THEN [message |-> "at least one day"]
    ELSE LET i == CHOOSE k \in DOMAIN form.pieces :
                      /\ form.pieces[k].fault # None
                      /\ \A j \in 1 .. (k - 1) : form.pieces[j].fault = None
         IN  CHOOSE e \in form.pieces[i].fault : TRUE

\* the message is the expected one and names the expected value
Agrees(e, expected) ==
    \/ expected.message = "unspecified"
    \/ /\ e.message = expected.message
       /\ expected.message = "out of range" => e.day = expected.day
       /\ expected.message = "Invalid number" => e.text = expected.text

\* C18: parse_day_range reports the error of the first offending token from
\* the left and no day list: "at least one day" for an input that is empty,
\* blank or made of separators only, "start must be <= end" for a range with
\* a > b, "out of range" naming the first value outside 1..31, "Invalid
\* number" naming the text that is not a number.
C18_FirstError ==
    (Parsed /\ ~ValidText) =>
        /\ ~view.result.ok
        /\ Agrees(view.result.error, ExpectedError)

\* "1,x,32": the error is that of "x"
C18_Witness ==
    /\ Parsed
    /\ form.text = <<"1", ",", "x", ",", "3", "2">>
    /\ view.result = Err(InvalidNumber(<<"x">>))

-----------------------------------------------------------------------------
(* the home page list of a chore that cannot be completed                  *)

NonCompleteableActive == Rendered /\ ~task.completeable /\ ~view.is_inactive

WithinAlertWindow ==
    now < view.next_due /\ view.next_due <= now + Minutes(task.alerting_time)

RecentlyOccurred ==
    view.most_recent_due <= now /\ now - view.most_recent_due <= Days(1)

EventList ==
    IF WithinAlertWindow THEN "alerting"
    ELSE IF RecentlyOccurred THEN "completed"
    ELSE "recurring"

\* C19 as stated: an active chore that cannot be completed is listed as
\* alerting within the alert window before its next due instant, as completed
\* only while its most recent due instant passed at most a day ago, otherwise
\* as a recurring event, whatever completions are recorded
C19_EventListAsStated ==
    NonCompleteableActive => view.category = EventList

\* C19: the same, except that a Once chore whose instant has passed stays in
\* the completed list however long ago that was; the list is never "due" or
\* "other" and does not depend on the completions recorded
C19_EventList ==
    NonCompleteableActive =>
        /\ view.category = IF view.is_once_completed THEN "completed" ELSE EventList
        /\ view.category \notin {"due", "other"}

\* a chore that cannot be completed, with completions on record, listed as
\* completed because its due instant passed within the day
C19_Witness ==
    /\ NonCompleteableActive
    /\ completions # <<>>
    /\ ~view.is_once_completed
    /\ ~WithinAlertWindow
    /\ RecentlyOccurred
    /\ view.category = "completed"

\* the three lists and the Once chore long past all occur
C19_WitnessAlerting ==
    NonCompleteableActive /\ WithinAlertWindow /\ view.category = "alerting"

C19_WitnessRecurring ==
    NonCompleteableActive /\ completions # <<>> /\ view.category = "recurring"

C19_WitnessOncePast ==
    /\ NonCompleteableActive
    /\ view.is_once_completed
    /\ now - view.most_recent_due > Days(1)
    /\ view.category = "completed"


-----------------------------------------------------------------------------
(* tasks.rs: the task form. The fields of TaskForm keep their names; each   *)
(* group of checkbox fields is the set of those present: dow (dow_sun ..    *)
(* dow_sat), wom_week (wom_week_1 .. wom_week_5), wom_dow (wom_dow_sun ..   *)
(* wom_dow_sat), cm_month (cm_month_jan .. cm_month_dec); name and details  *)
(* are left out                                                             *)

\* TaskForm::default(), but for the schedule type
EmptyForm(schedule_type) ==
    [kind           |-> "form",
     schedule_type  |-> schedule_type,
     n_days_count   |-> None, n_days_time    |-> None,
     n_weeks_count  |-> None, n_weeks_time   |-> None, dow      |-> {},
     monthwise_days |-> None, monthwise_time |-> None,
     wom_week       |-> {},   wom_dow        |-> {},   wom_time |-> None,
     cm_month       |-> {},   cm_days        |-> None, cm_time  |-> None,
     once_now       |-> None, once_date      |-> None, once_time |-> None,
     alerting_time  |-> None, completeable   |-> None]

unwrap_or(option, default) ==
    IF option = None THEN default ELSE CHOOSE x \in option : TRUE

\* a decimal field of a chrono format: one to `most` digits
number_of(s, most) ==
    IF Len(s) \in 1 .. most /\ \A i \in DOMAIN s : IsDigit(s[i])
    THEN checked_digits(s, 0) ELSE None

two_digits(n) == <<DecimalDigits[(n \div 10) + 1], DecimalDigits[(n % 10) + 1]>>

four_digits(n) == two_digits(n \div 100) \o two_digits(n % 100)

\* NaiveTime::parse_from_str(t, "%H:%M").ok()
parse_time(t) ==
    LET pieces == split(t, ":")
    IN  IF Len(pieces) # 2 THEN None
        ELSE {HM(h, m) : h \in {x \in number_of(pieces[1], 2) : x <= 23},
                         m \in {x \in number_of(pieces[2], 2) : x <= 59}}

\* time.format("%H:%M")
format_time(time) == two_digits(time \div 60) \o <<":">> \o two_digits(time % 60)

\* NaiveDate::parse_from_str(s, "%Y-%m-%d").ok(), for the dates of the calendar
parse_date(s) ==
    LET pieces == split(s, "-")
    IN  IF Len(pieces) # 3 THEN None
        ELSE {date \in {DaysFromCivil(y, m, d) : y \in number_of(pieces[1], 4),
                                                 m \in number_of(pieces[2], 2) \cap (1 .. 12),
                                                 d \in number_of(pieces[3], 2) \cap (1 .. 31)} :
                 /\ date \in CalendarFirst .. CalendarLast
                 /\ number_of(pieces[1], 4) = Some(Calendar[date].year)
                 /\ number_of(pieces[2], 2) = Some(Calendar[date].month)
                 /\ number_of(pieces[3], 2) = Some(Calendar[date].day)}

\* date.format("%Y-%m-%d")
format_date(date) ==
    four_digits(Calendar[date].year) \o <<"-">> \o two_digits(Calendar[date].month)
        \o <<"-">> \o two_digits(Calendar[date].day)

schedule_kind_of(schedule_type, base_task) ==
    CASE schedule_type = "n_days" -> "NDays"
      [] schedule_type = "n_weeks" -> "NWeeks"
      [] schedule_type = "monthwise" -> "Monthwise"
      [] schedule_type = "weeks_of_month" -> "WeeksOfMonth"
      [] schedule_type = "certain_months" -> "CertainMonths"
      [] schedule_type = "once" -> "Once"
      [] OTHER -> base_task.schedule_kind

\* .and_then(|t| NaiveTime::parse_from_str(t, "%H:%M").ok()).unwrap_or(..)
time_or(field, default) == unwrap_or(UNION {parse_time(t) : t \in field}, default)

\* .and_then(|s| parse_day_range(s).ok()).filter(|v| !v.is_empty())
\*     .unwrap_or_else(|| ..)
days_or(field, default) ==
    LET parsed == {parse_day_range(text) : text \in field}
    IN  unwrap_or({r.value : r \in {x \in parsed : x.ok /\ x.value # <<>>}}, default)

\* the numbers of the checkboxes present, pushed in ascending order, or the
\* base task's list when none is
checked_or(present, default) ==
    IF present = {} THEN default
    ELSE [i \in 1 .. Cardinality(present) |->
             CHOOSE k \in present : Cardinality({j \in present : j < k}) = i - 1]

once_of(f, base_task, at, zone) ==
    IF f.once_now # None THEN [datetime |-> at]
    ELSE LET once_date == UNION {parse_date(text) : text \in {x \in f.once_date : x # <<>>}}
             once_time == unwrap_or(UNION {parse_time(t) :
                                              t \in {x \in f.once_time : x # <<>>}},
                                    HM(9, 0))
             single(date) == from_local_datetime(zone, date, once_time)
         IN  IF once_date = None THEN base_task.once
             ELSE unwrap_or({[datetime |-> dt] :
                                dt \in UNION {single(date) : date \in
                                     {x \in once_date : Cardinality(single(x)) = 1}}},
                            base_task.once)

\* TaskForm::to_demo_task at the instant `at`, in the configured zone
to_demo_task(f, base_task, at, zone) ==
    [schedule_kind  |-> schedule_kind_of(f.schedule_type, base_task),
     n_days         |-> [days |-> unwrap_or(f.n_days_count, base_task.n_days.days),
                         time |-> time_or(f.n_days_time, base_task.n_days.time)],
     n_weeks        |-> [weeks |-> unwrap_or(f.n_weeks_count, base_task.n_weeks.weeks),
                         sub_schedule |->
                             DaysOfWeek(f.dow, time_or(f.n_weeks_time,
                                                       base_task.n_weeks.sub_schedule.time))],
     monthwise      |-> [days |-> days_or(f.monthwise_days, base_task.monthwise.days),
                         time |-> time_or(f.monthwise_time, base_task.monthwise.time)],
     weeks_of_month |-> [weeks |-> checked_or(f.wom_week, base_task.weeks_of_month.weeks),
                         sub_schedule |->
                             DaysOfWeek(f.wom_dow,
                                        time_or(f.wom_time,
                                                base_task.weeks_of_month.sub_schedule.time))],
     certain_months |-> [months |-> checked_or(f.cm_month, base_task.certain_months.months),
                         days   |-> days_or(f.cm_days, base_task.certain_months.days),
                         time   |-> time_or(f.cm_time, base_task.certain_months.time)],
     once           |-> once_of(f, base_task, at, zone),
     alerting_time  |-> unwrap_or(f.alerting_time, base_task.alerting_time),
     completeable   |-> f.completeable # None,
     created_at     |-> base_task.created_at,
     deleted_at     |-> base_task.deleted_at]

\* the error of a days field: the parse error, or the one of a missing field
days_error(field) ==
    IF field = None THEN Some([message |-> "at least one day"])
    ELSE {r.error : r \in {x \in {parse_day_range(text) : text \in field} : ~x.ok}}

\* variant: the days text of every kind is validated when present
validate_every_kind(f) ==
    [monthwise_days      |-> IF f.schedule_type = "monthwise" \/ f.monthwise_days # None
                             THEN days_error(f.monthwise_days) ELSE None,
     certain_months_days |-> IF f.schedule_type = "certain_months" \/ f.cm_days # None
                             THEN days_error(f.cm_days) ELSE None,
     general             |-> None]

\* TaskForm::validate
validate(f) ==
    [monthwise_days      |-> IF f.schedule_type = "monthwise"
                             THEN days_error(f.monthwise_days) ELSE None,
     certain_months_days |-> IF f.schedule_type = "certain_months"
                             THEN days_error(f.cm_days) ELSE None,
     general             |-> None]

has_errors(errors) ==
    errors.monthwise_days # None \/ errors.certain_months_days # None \/ errors.general # None

\* FormErrors::default()
NoErrors == [monthwise_days |-> None, certain_months_days |-> None, general |-> None]

schedule_type_of(schedule_kind) ==
    CASE schedule_kind = "NDays" -> "n_days"
      [] schedule_kind = "NWeeks" -> "n_weeks"
      [] schedule_kind = "Monthwise" -> "monthwise"
      [] schedule_kind = "WeeksOfMonth" -> "weeks_of_month"
      [] schedule_kind = "CertainMonths" -> "certain_months"
      [] schedule_kind = "Once" -> "once"

\* the names of the weekdays a DaysOfWeek has checked
checked_days(sub_schedule) ==
    {WeekdayNames[k] : k \in {j \in 1 .. 7 :
        <<sub_schedule.sunday, sub_schedule.monday, sub_schedule.tuesday,
          sub_schedule.wednesday, sub_schedule.thursday, sub_schedule.friday,
          sub_schedule.saturday>>[j]}}

\* render_task_editor_inner: the fields the editor of the shown task submits
\* when nothing is edited: those of the editor of its schedule kind alone, the
\* alert time and the completeable checkbox; a days field shows the text
\* submitted before when there is one
render_task_editor_inner(shown, raw, zone) ==
    LET common == [EmptyForm(schedule_type_of(shown.schedule_kind)) EXCEPT
                       !.alerting_time = Some(shown.alerting_time),
                       !.completeable  = IF shown.completeable THEN Some("on") ELSE None]
        raw_monthwise_days == UNION {f.monthwise_days : f \in raw}
        raw_cm_days        == UNION {f.cm_days : f \in raw}
    IN  CASE shown.schedule_kind = "NDays" ->
                 [common EXCEPT !.n_days_count = Some(shown.n_days.days),
                                !.n_days_time  = Some(format_time(shown.n_days.time))]
          [] shown.schedule_kind = "NWeeks" ->
                 [common EXCEPT !.n_weeks_count = Some(shown.n_weeks.weeks),
                                !.dow           = checked_days(shown.n_weeks.sub_schedule),
                                !.n_weeks_time  =
                                    Some(format_time(shown.n_weeks.sub_schedule.time))]
          [] shown.schedule_kind = "Monthwise" ->
                 [common EXCEPT !.monthwise_days =
                                    Some(unwrap_or(raw_monthwise_days,
                                                   format_day_range(shown.monthwise.days))),
                                !.monthwise_time = Some(format_time(shown.monthwise.time))]
          [] shown.schedule_kind = "WeeksOfMonth" ->
                 [common EXCEPT !.wom_week = {shown.weeks_of_month.weeks[k] :
                                                 k \in DOMAIN shown.weeks_of_month.weeks}
                                             \cap (1 .. 5),
                                !.wom_dow  = checked_days(shown.weeks_of_month.sub_schedule),
                                !.wom_time =
                                    Some(format_time(shown.weeks_of_month.sub_schedule.time))]
          [] shown.schedule_kind = "CertainMonths" ->
                 [common EXCEPT !.cm_month = {shown.certain_months.months[k] :
                                                 k \in DOMAIN shown.certain_months.months}
                                             \cap (1 .. 12),
                                !.cm_days  =
                                    Some(unwrap_or(raw_cm_days,
                                                   format_day_range(shown.certain_months.days))),
                                !.cm_time  = Some(format_time(shown.certain_months.time))]
          [] shown.schedule_kind = "Once" ->
                 [common EXCEPT !.once_date =
                                    Some(format_date(DateNaive(zone, shown.once.datetime))),
                                !.once_time =
                                    Some(format_time(TimeOf(zone, shown.once.datetime)))]

-----------------------------------------------------------------------------
(* one session of the task editor: the modal is opened on the stored task, *)
(* the schedule type is changed any number of times, the task is saved     *)

\* the stored tasks: every kind, each with parameters of its own for every kind
StoredTasksAt(at) ==
    {[create_default_task(at - Days(2)) EXCEPT
          !.schedule_kind  = k,
          !.n_days         = [days |-> 7, time |-> HM(18, 0)],
          !.n_weeks        = [weeks |-> 2,
                              sub_schedule |-> DaysOfWeek({"Tue", "Thu"}, HM(14, 0))],
          !.monthwise      = [days |-> <<1, 15>>, time |-> HM(15, 0)],
          !.weeks_of_month = [weeks |-> <<2, 4>>,
                              sub_schedule |-> DaysOfWeek({"Fri"}, HM(17, 0))],
          !.certain_months = [months |-> <<2, 3>>, days |-> <<10, 11, 12>>,
                              time |-> HM(8, 30)],
          !.alerting_time  = 60,
          !.completeable   = c] : k \in Kinds, c \in BOOLEAN}

\* the fields of the editor of each schedule kind, and those of every editor
EditorFields(schedule_kind) ==
    {"alerting_time", "completeable"} \cup
    CASE schedule_kind = "NDays" -> {"n_days_count", "n_days_time"}
      [] schedule_kind = "NWeeks" -> {"n_weeks_count", "n_weeks_time", "dow"}
      [] schedule_kind = "Monthwise" -> {"monthwise_days", "monthwise_time"}
      [] schedule_kind = "WeeksOfMonth" -> {"wom_week", "wom_dow", "wom_time"}
      [] schedule_kind = "CertainMonths" -> {"cm_month", "cm_days", "cm_time"}
      [] schedule_kind = "Once" -> {"once_now", "once_date", "once_time"}

\* the edit is one of a field of the editor shown
Editable(edit) ==
    edit.field = "none" \/ edit.field \in EditorFields(view.shown.schedule_kind)

\* what the user changes before submitting: nothing, or one field
Edits ==
    << [field |-> "none",           value |-> None],
       [field |-> "n_days_count",   value |-> Some(3)],
       [field |-> "n_days_time",    value |-> Some(<<>>)],
       [field |-> "dow",            value |-> {"Sat", "Sun"}],
       [field |-> "dow",            value |-> {}],
       [field |-> "n_weeks_time",   value |-> Some(<<"0", "6", ":", "4", "5">>)],
       [field |-> "monthwise_days", value |-> Some(<<"2", "-", "3">>)],
       [field |-> "monthwise_days", value |-> Some(<<"x">>)],
       [field |-> "wom_week",       value |-> {}],
       [field |-> "wom_week",       value |-> {5, 1}],
       [field |-> "wom_dow",        value |-> {"Mon"}],
       [field |-> "cm_month",       value |-> {}],
       [field |-> "cm_month",       value |-> {12}],
       [field |-> "cm_days",        value |-> Some(<<"1", "0", "-", "5">>)],
       [field |-> "once_now",       value |-> Some("on")],
       [field |-> "once_date",      value |-> Some(<<"2", "0", "2", "4", "-", "0", "2", "-",
                                                    "3", "0">>)],
       [field |-> "once_date",      value |-> Some(<<"2", "0", "2", "4", "-", "0", "3", "-",
                                                    "1", "0">>)],
       [field |-> "once_time",      value |-> Some(<<"0", "2", ":", "3", "0">>)],
       [field |-> "alerting_time",  value |-> Some(1440)],
       [field |-> "completeable",   value |-> None] >>

\* the form submitted from the editor shown, after one edit, under a schedule type
Submitted(edit, schedule_type) ==
    LET rendered == render_task_editor_inner(view.shown, view.raw, tz)
        edited   == IF edit.field = "none" THEN rendered
                    ELSE [rendered EXCEPT ![edit.field] = edit.value]
    IN  [edited EXCEPT !.schedule_type = schedule_type]

ScheduleTypes == {schedule_type_of(k) : k \in Kinds}

\* forms posted without the editor, with fields of kinds other than the
\* selected one, without the days field of the selected one, or with counts
\* below the least the number inputs of the editor accept
DirectForms ==
    {[EmptyForm("monthwise") EXCEPT !.monthwise_time = Some(<<"1", "0", ":", "0", "0">>)],
     [EmptyForm("monthwise") EXCEPT !.monthwise_days = Some(<<"1", ",", " ", "3", "2">>)],
     [EmptyForm("monthwise") EXCEPT !.monthwise_days = Some(<<>>)],
     [EmptyForm("monthwise") EXCEPT !.monthwise_days = Some(<<"4", "-", "6">>),
                                    !.cm_days = Some(<<"1", "0", "-", "5">>)],
     [EmptyForm("n_days") EXCEPT !.n_days_count = Some(7),
                                 !.monthwise_days = Some(<<"x">>),
                                 !.cm_days = Some(<<"3", "2">>)],
     [EmptyForm("certain_months") EXCEPT !.cm_month = {6}],
     [EmptyForm("certain_months") EXCEPT !.cm_days = Some(<<"1", "-", "3">>),
                                         !.monthwise_days = Some(<<"x">>)],
     [EmptyForm("certain_months") EXCEPT !.cm_days = Some(<<"0">>),
                                         !.monthwise_days = Some(<<"1">>)],
     [EmptyForm("yearly") EXCEPT !.monthwise_days = Some(<<"x">>)],
     [EmptyForm("n_days") EXCEPT !.n_days_count = Some(0), !.n_weeks_count = Some(0 - 1)]}

\* the row of the session is stored, or (NoTask) is not stored yet
NoTask == [schedule_kind |-> "none"]

InitForm ==
    /\ now = Days(DaysFromCivil(2024, 3, 8)) + HM(5, 10)
    /\ tz \in {UTC, NewYork}
    /\ local = tz
    /\ task \in StoredTasksAt(now) \cup {NoTask}
    /\ completions = <<>>
    /\ form = NoForm
    /\ view = NoView
    /\ Configured

\* GET /tasks/:id/edit
TaskEditModal ==
    /\ view = NoView
    /\ task # NoTask
    /\ view' = [op |-> "modal", shown |-> task, raw |-> None, errors |-> NoErrors]
    /\ UNCHANGED <<now, tz, local, task, completions, form, APP_TIMEZONE, threads>>

EditorShown == view.op \in {"modal", "schedule-type", "save-errors"}

\* POST /tasks/:id/schedule-type: the form is re-rendered on the task built
\* from the form and the stored task; nothing is stored
ChangeScheduleType ==
    /\ EditorShown
    /\ \E i \in DOMAIN Edits, schedule_type \in ScheduleTypes :
           /\ schedule_type # schedule_type_of(view.shown.schedule_kind)
           /\ Editable(Edits[i])
           /\ form' = Submitted(Edits[i], schedule_type)
    /\ view' = [op     |-> "schedule-type",
                shown  |-> to_demo_task(form', task, now, tz),
                raw    |-> None,
                errors |-> NoErrors]
    /\ UNCHANGED <<now, tz, local, task, completions, APP_TIMEZONE, threads>>

\* the form posted from the editor shown: after one edit, or built by hand
Posted(f) ==
    \/ \E i \in DOMAIN Edits :
           /\ Editable(Edits[i])
           /\ f = Submitted(Edits[i], schedule_type_of(view.shown.schedule_kind))
    \/ f \in DirectForms

\* save_task from its two lookups of the task (db::get_task, or the map of
\* demo tasks): a form with errors is shown again when the first lookup finds
\* the task, and control goes on to the saving part when it does not; the
\* saving part looks the task up again and writes when it finds it
save_task(f, found, found_again) ==
    IF has_errors(validate(f)) /\ found THEN "errors"
    ELSE IF found_again THEN "write"
    ELSE "not-found"

\* POST /tasks/:id: the form with errors is shown again on the task built from
\* it; the saving part replaces the stored task by the task built from the form
SaveTask ==
    /\ EditorShown
    /\ Posted(form')
    /\ \E outcome \in {save_task(form', found[1], found[2]) : found \in BOOLEAN \X BOOLEAN} :
           /\ task' = IF outcome = "write" THEN to_demo_task(form', task, now, tz)
                      ELSE task
           /\ view' = IF outcome = "errors"
                      THEN [op     |-> "save-errors",
                            shown  |-> to_demo_task(form', task, now, tz),
                            raw    |-> Some(form'),
                            errors |-> validate(form'),
                            base   |-> task]
                      ELSE [op     |-> IF outcome = "write" THEN "saved" ELSE "not-found",
                            errors |-> validate(form'),
                            base   |-> task]
    /\ UNCHANGED <<now, tz, local, completions, APP_TIMEZONE, threads>>

\* GET /tasks/new
NewTaskModal ==
    /\ view = NoView
    /\ task = NoTask
    /\ view' = [op |-> "new-modal", shown |-> create_default_task(now), raw |-> None,
                errors |-> NoErrors]
    /\ UNCHANGED <<now, tz, local, task, completions, form, APP_TIMEZONE, threads>>

NewEditorShown == view.op \in {"new-modal", "new-schedule-type", "create-errors"}

\* POST /tasks/new/schedule-type
NewTaskScheduleType ==
    /\ NewEditorShown
    /\ \E i \in DOMAIN Edits, schedule_type \in ScheduleTypes :
           /\ schedule_type # schedule_type_of(view.shown.schedule_kind)
           /\ Editable(Edits[i])
           /\ form' = Submitted(Edits[i], schedule_type)
    /\ view' = [op     |-> "new-schedule-type",
                shown  |-> to_demo_task(form', create_default_task(now), now, tz),
                raw    |-> None,
                errors |-> NoErrors]
    /\ UNCHANGED <<now, tz, local, task, completions, APP_TIMEZONE, threads>>

\* POST /tasks/new: the form with errors is shown again; a valid one is
\* inserted by db::save_task, which succeeds or fails
CreateTask ==
    /\ NewEditorShown
    /\ Posted(form')
    /\ \E inserted \in BOOLEAN :
           IF has_errors(validate(form'))
           THEN /\ view' = [op     |-> "create-errors",
                            shown  |-> to_demo_task(form', create_default_task(now), now, tz),
                            raw    |-> Some(form'),
                            errors |-> validate(form'),
                            base   |-> task]
                /\ task' = task
           ELSE /\ task' = IF inserted
                           THEN to_demo_task(form', create_default_task(now), now, tz)
                           ELSE task
                /\ view' = [op     |-> IF inserted THEN "created" ELSE "create-failed",
                            errors |-> validate(form'),
                            base   |-> task]
    /\ UNCHANGED <<now, tz, local, completions, APP_TIMEZONE, threads>>

NextForm ==
    \/ TaskEditModal \/ ChangeScheduleType \/ SaveTask
    \/ NewTaskModal \/ NewTaskScheduleType \/ CreateTask

SpecForm == InitForm /\ [][NextForm]_vars

-----------------------------------------------------------------------------
(* the parameters of the kinds the form says nothing about                 *)

\* the form has none of the fields of the editor of the kind
FieldsAbsent(f, k) ==
    \A name \in EditorFields(k) \ {"alerting_time", "completeable"} :
        f[name] \in {None, {}}

\* the parameters of a kind
KindParameters(t, k) ==
    CASE k = "NDays" -> t.n_days
      [] k = "NWeeks" -> t.n_weeks
      [] k = "Monthwise" -> t.monthwise
      [] k = "WeeksOfMonth" -> t.weeks_of_month
      [] k = "CertainMonths" -> t.certain_months
      [] k = "Once" -> t.once

AbsentKindsKept(built, base_task) ==
    \A k \in Kinds :
        FieldsAbsent(form, k) => KindParameters(built, k) = KindParameters(base_task, k)

\* C20: the task built from a submitted form keeps, for every kind whose
\* fields are absent from the form, that kind's parameters equal to the base
\* task's, both when the schedule type is changed and when the task is saved
C20_AbsentKindsKept ==
    /\ view.op \in {"schedule-type", "save-errors"} => AbsentKindsKept(view.shown, task)
    /\ view.op = "saved" => AbsentKindsKept(task, view.base)

\* all but the weekday selections are kept
WithoutWeekdays(parameters, k) ==
    IF k \in {"NWeeks", "WeeksOfMonth"}
    THEN [parameters EXCEPT !.sub_schedule = [time |-> @.time]]
    ELSE parameters

AbsentKindsKeptButWeekdays(built, base_task) ==
    \A k \in Kinds :
        FieldsAbsent(form, k) =>
            WithoutWeekdays(KindParameters(built, k), k)
                = WithoutWeekdays(KindParameters(base_task, k), k)

C20_KeptButWeekdays ==
    /\ view.op \in {"schedule-type", "save-errors"}
           => AbsentKindsKeptButWeekdays(view.shown, task)
    /\ view.op = "saved" => AbsentKindsKeptButWeekdays(task, view.base)

\* the schedule type was changed away from EveryNWeeks and back with nothing
\* edited, and the editor shows no weekday of the stored task selected
C20_SwitchedBackOtherValues ==
    /\ view.op = "schedule-type"
    /\ view.shown.schedule_kind = "NWeeks"
    /\ task.schedule_kind = "NWeeks"
    /\ checked_days(task.n_weeks.sub_schedule) = {"Tue", "Thu"}
    /\ checked_days(view.shown.n_weeks.sub_schedule) = {}


-----------------------------------------------------------------------------
(* the errors of a form                                                    *)

\* a form was posted to be saved or created, and validate was applied to it
Validated ==
    view.op \in {"save-errors", "saved", "not-found", "create-errors", "created",
                 "create-failed"}

\* the day-range text of a field is absent, or parse_day_range rejects it
DaysRejected(field) == field = None \/ \E text \in field : ~parse_day_range(text).ok

\* the message of the parser for the text, the one of an empty text when the
\* field is absent
DaysMessage(field) ==
    IF field = None THEN [message |-> "at least one day"]
    ELSE parse_day_range(CHOOSE text \in field : TRUE).error

\* C21: validate reports an error iff the selected schedule type is monthwise
\* (resp. certain_months) and its day-range text is absent or rejected by
\* parse_day_range; the error is on that kind's field, with the parser's
\* message; the text of a kind that is not selected is never validated
C21_ValidateSelectedKindOnly ==
    Validated =>
        /\ view.errors.monthwise_days =
               IF form.schedule_type = "monthwise" /\ DaysRejected(form.monthwise_days)
               THEN Some(DaysMessage(form.monthwise_days)) ELSE None
        /\ view.errors.certain_months_days =
               IF form.schedule_type = "certain_months" /\ DaysRejected(form.cm_days)
               THEN Some(DaysMessage(form.cm_days)) ELSE None
        /\ view.errors.general = None

\* a form saved without error although it carries malformed day-range text of
\* kinds that are not selected
C21_Witness ==
    /\ view.op = "saved"
    /\ form.schedule_type = "n_days"
    /\ form.monthwise_days = Some(<<"x">>)
    /\ form.cm_days = Some(<<"3", "2">>)
    /\ ~has_errors(view.errors)

\* the selected kind's text absent, and rejected as out of range
C21_WitnessAbsent ==
    /\ view.op = "save-errors"
    /\ form.schedule_type = "certain_months"
    /\ form.cm_days = None
    /\ view.errors.certain_months_days = Some([message |-> "at least one day"])


-----------------------------------------------------------------------------
(* EveryNWeeks: the weekday set alone decides the occurrences              *)

\* an EveryNWeeks task with an active weekday, rendered, whose validity
\* window holds the week before today and the two weeks after
WeeklyRendered ==
    /\ Rendered
    /\ task.schedule_kind = "NWeeks"
    /\ ActiveWeekdays(task.n_weeks.sub_schedule) # {}
    /\ \A date \in (Today - 7) .. (Today + 14) : InWindow(task, date, tz)

WeeklyOccurrence(date) == WeekdayOf(date) \in ActiveWeekdays(task.n_weeks.sub_schedule)

-----------------------------------------------------------------------------
(* config.rs: the time zone cell, a OnceLock, under concurrent callers.    *)
(* OnceLock::set and OnceLock::get are atomic; init_timezone parses its    *)
(* argument before it calls set, so another call can come between the two  *)

\* tz_str.parse::<Tz>().ok(), for the zones this model has
parse_tz(tz_str) ==
    CASE tz_str = "UTC" -> Some(UTC)
      [] tz_str = "America/New_York" -> Some(NewYork)
      [] tz_str = "Asia/Kolkata" -> Some(FixedOffset(330))
      [] OTHER -> None

\* the calls one thread makes
MaxCalls == 2

\* three concurrent callers
ThreadIds == {1, 2, 3}

ZoneNames == {"America/New_York", "Asia/Kolkata", "Mars/Phobos"}

\* a thread between calls; tz_str and timezone are the argument and the local
\* of its last init_timezone, set_ok whether its set was the first, returned
\* what its last get_timezone returned
Idle ==
    [pc |-> "idle", calls |-> 0, tz_str |-> None, timezone |-> None, set_ok |-> None,
     returned |-> None]

InitConfig ==
    /\ APP_TIMEZONE = None
    /\ threads = [i \in ThreadIds |-> Idle]
    /\ now = 0
    /\ tz = UTC
    /\ local = UTC
    /\ task = create_default_task(0)
    /\ completions = <<>>
    /\ form = NoForm
    /\ view = NoView

\* init_timezone, up to the call of set: the argument is parsed
InitTimezoneParse(i) ==
    /\ threads[i].pc = "idle"
    /\ threads[i].calls < MaxCalls
    /\ \E tz_str \in ZoneNames :
           threads' = [threads EXCEPT ![i] =
                          [@ EXCEPT !.pc       = "set",
                                    !.calls    = @ + 1,
                                    !.tz_str   = Some(tz_str),
                                    !.timezone = Some(unwrap_or(parse_tz(tz_str), UTC)),
                                    !.set_ok   = None]]
    /\ UNCHANGED <<now, tz, local, task, completions, form, view, APP_TIMEZONE>>

\* variant: set replaces the zone of an initialized cell
InitTimezoneSetAgain(i) ==
    /\ threads[i].pc = "set"
    /\ APP_TIMEZONE' = threads[i].timezone
    /\ threads' = [threads EXCEPT ![i] = [@ EXCEPT !.pc = "idle", !.set_ok = Some(TRUE)]]
    /\ UNCHANGED <<now, tz, local, task, completions, form, view>>

\* init_timezone, APP_TIMEZONE.set(timezone): an empty cell takes the zone, an
\* initialized one keeps its own and the call warns
InitTimezoneSet(i) ==
    /\ threads[i].pc = "set"
    /\ APP_TIMEZONE' = IF APP_TIMEZONE = None THEN threads[i].timezone ELSE APP_TIMEZONE
    /\ threads' = [threads EXCEPT ![i] =
                      [@ EXCEPT !.pc = "idle", !.set_ok = Some(APP_TIMEZONE = None)]]
    /\ UNCHANGED <<now, tz, local, task, completions, form, view>>

\* get_timezone: the zone of the cell, UTC while it is empty
GetTimezone(i) ==
    /\ threads[i].pc = "idle"
    /\ threads[i].calls < MaxCalls
    /\ threads' = [threads EXCEPT ![i] =
                      [@ EXCEPT !.calls = @ + 1,
                                !.returned = Some(unwrap_or(APP_TIMEZONE, UTC))]]
    /\ tz' = unwrap_or(APP_TIMEZONE, UTC)
    /\ UNCHANGED <<now, local, task, completions, form, view, APP_TIMEZONE>>

NextConfig ==
    \E i \in ThreadIds : InitTimezoneParse(i) \/ InitTimezoneSet(i) \/ GetTimezone(i)

SpecConfig == InitConfig /\ [][NextConfig]_vars

-----------------------------------------------------------------------------
(* the configured zone is written once                                     *)

\* the zone a name stands for, UTC for a name that is none
ZoneNamed(tz_str) ==
    IF tz_str = "America/New_York" THEN NewYork
    ELSE IF tz_str = "Asia/Kolkata" THEN FixedOffset(330)
    ELSE UTC

\* thread i returns from get_timezone in this step
Got(i) ==
    /\ threads[i].pc = "idle"
    /\ threads'[i].pc = "idle"
    /\ threads'[i].calls = threads[i].calls + 1

\* thread i calls set in this step
SetCalled(i) == threads[i].pc = "set" /\ threads'[i].pc = "idle"

\* C23: the configured zone is write-once under any interleaving: the first
\* set of an init_timezone call fixes it, to the zone its string names or to
\* UTC when it names none; every later call leaves it unchanged; get_timezone
\* returns that zone on every call after initialization, and UTC before
C23_WriteOnce ==
    [][/\ APP_TIMEZONE # None => APP_TIMEZONE' = APP_TIMEZONE
       /\ \A i \in ThreadIds :
              /\ (SetCalled(i) /\ APP_TIMEZONE = None) =>
                     \E tz_str \in threads[i].tz_str :
                         APP_TIMEZONE' = Some(ZoneNamed(tz_str))
              /\ Got(i) =>
                     /\ APP_TIMEZONE' = APP_TIMEZONE
                     /\ threads'[i].returned =
                            IF APP_TIMEZONE = None THEN Some(UTC) ELSE APP_TIMEZONE]_vars

\* two init_timezone calls raced with different zones, the one that parsed an
\* invalid name set first and fixed UTC, the other was refused, and a
\* get_timezone after them returned the zone fixed
C23_Witness ==
    \E i, j, k \in ThreadIds :
        /\ threads[i].set_ok = Some(TRUE)
        /\ threads[i].tz_str = Some("Mars/Phobos")
        /\ APP_TIMEZONE = Some(UTC)
        /\ threads[j].set_ok = Some(FALSE)
        /\ threads[j].timezone = Some(NewYork)
        /\ threads[k].returned = APP_TIMEZONE
        /\ threads[k].calls = MaxCalls


-----------------------------------------------------------------------------
(* the home page rendered at two instants: the task is rendered, time      *)
(* passes, the task is rendered again; nothing else changes                *)

\* the time that passes between the two renderings
Elapsed ==
    {60, HM(23, 0), Days(1), Days(2) + 90, Days(4), Days(7) - 60, Days(20), Days(59),
     Days(61), Days(75)}

InitLater ==
    /\ now \in FewNows
    /\ tz = UTC
    /\ local = tz
    /\ task \in TasksAt(now) \cup SparseTasksAt(now)
    /\ completions \in {<<>>, <<now>>, <<now - Days(3), now - 30>>}
    /\ form = NoForm
    /\ view = NoView
    /\ Configured

\* the clock moves on after a rendering
Advance ==
    /\ view.op = "homepage"
    /\ \E elapsed \in Elapsed : now' = now + elapsed
    /\ view' = [op |-> "elapsed", earlier |-> view, earlier_at |-> now]
    /\ UNCHANGED <<tz, local, task, completions, form, APP_TIMEZONE, threads>>

\* the rendering at the later instant, the earlier one kept beside it
RenderAgain ==
    /\ view.op = "elapsed"
    /\ view' = [op                |-> "homepage-again",
                earlier           |-> view.earlier,
                earlier_at        |-> view.earlier_at,
                next_due          |-> next_due_date(task, now, tz).value,
                most_recent_due   |-> most_recent_due_date(task, now, tz).value,
                is_due            |-> is_due(task, now, tz),
                is_alerting       |-> is_alerting(task, now, tz),
                is_inactive       |-> is_inactive(task, now),
                latest_completion |-> get_latest_completion(completions),
                category          |-> homepage(task, completions, now, tz)]
    /\ UNCHANGED <<now, tz, local, task, completions, form, APP_TIMEZONE, threads>>

NextLater == Render \/ Advance \/ RenderAgain

SpecLater == InitLater /\ [][NextLater]_vars

-----------------------------------------------------------------------------
(* a completion lasts until the next occurrence                            *)

RenderedAgain == view.op = "homepage-again"

\* the instant is an occurrence of the task on a date of the look-back of
\* the earlier rendering, by the predicate of its variant
EarlierOccurrence(instant) ==
    LET today == DateNaive(tz, view.earlier_at)
    IN  \E date \in (today - BackwardHorizon) .. today :
            /\ SpecMatches(task.schedule_kind, task, date, today, tz)
            /\ instant = OccurrenceOn(task, date, tz)

\* the task was listed as completed at the earlier rendering because its
\* latest completion was later than its most recent occurrence
WasCompleted ==
    /\ RenderedAgain
    /\ task.completeable
    /\ view.earlier.category = "completed"
    /\ EarlierOccurrence(view.earlier.most_recent_due)
    /\ \E completion_time \in view.earlier.latest_completion :
           completion_time > view.earlier.most_recent_due

\* the next occurrence, as announced at the earlier rendering, has not come
NextOccurrenceAhead == task.schedule_kind = "Once" \/ now < view.earlier.next_due

\* C24: a completeable chore listed as completed because a completion is
\* later than its most recent occurrence stays completed at every later
\* instant until the due instant of its next occurrence passes; a Once chore
\* for ever, a chore of sparse occurrences for the whole gap
C24_CompletedUntilNextOccurrence ==
    (WasCompleted /\ NextOccurrenceAhead) => view.category = "completed"

\* the same for the instants at most 59 days later and the kinds whose
\* occurrences are dates of the calendar, not intervals from today
C24_CompletedWithinLookBack ==
    (/\ WasCompleted
     /\ NextOccurrenceAhead
     /\ task.schedule_kind # "NDays"
     /\ now - view.earlier.most_recent_due <= Days(59)
     /\ view.earlier.most_recent_due = view.most_recent_due) => view.category = "completed"


\* a Once chore completed after its instant is listed as due again when the
\* instant has left the look-back
C24_OnceDueAgain ==
    /\ WasCompleted
    /\ task.schedule_kind = "Once"
    /\ now - task.once.datetime > Days(BackwardHorizon)
    /\ view.category = "due"

\* a chore of one occurrence a year, completed after it, is no longer listed
\* as completed when the occurrence has left the look-back
C24_GapForgotten ==
    /\ WasCompleted
    /\ task.schedule_kind = "CertainMonths"
    /\ now < view.earlier.next_due
    /\ view.most_recent_due = now - Days(BackwardHorizon)
    /\ view.category = "other"

\* an EveryNDays chore completed after its occurrence is no longer listed as
\* completed before the occurrence announced next
C24_IntervalForgottenEarly ==
    /\ WasCompleted
    /\ task.schedule_kind = "NDays"
    /\ now < view.earlier.next_due
    /\ now - view.earlier_at < Days(BackwardHorizon)
    /\ view.category # "completed"


-----------------------------------------------------------------------------
(* an occurrence announced is found again once it has come                 *)

\* the next due instant announced at the earlier rendering has come, and the
\* earlier rendering is at most 60 days old
AnnouncedHasCome ==
    /\ RenderedAgain
    /\ view.earlier.next_due <= now
    /\ now - view.earlier_at <= Days(BackwardHorizon)

\* C25: for every schedule kind, if next_due_date evaluated at t1 returns T and
\* T <= t2, t2 at most 60 days after t1, then most_recent_due_date evaluated at
\* t2 returns an instant >= T
C25_AnnouncedNotForgotten ==
    AnnouncedHasCome => view.most_recent_due >= view.earlier.next_due

\* the same, EveryNDays of two days or more left aside
C25_AnnouncedNotForgottenButIntervals ==
    (AnnouncedHasCome /\ (task.schedule_kind = "NDays" => task.n_days.days = 1)) =>
        view.most_recent_due >= view.earlier.next_due

\* an EveryNDays chore of three days: the occurrence announced has come and
\* the most recent due instant found is an earlier one
C25_IntervalForgotten ==
    /\ AnnouncedHasCome
    /\ task.schedule_kind = "NDays"
    /\ task.n_days.days = 3
    /\ view.earlier.next_due > view.earlier_at
    /\ view.most_recent_due < view.earlier.next_due


-----------------------------------------------------------------------------
(* a form that fails validation                                            *)

FormRefused == Validated /\ has_errors(view.errors)

\* the days fields of the editor shown again carry the text that was posted
RawTextShown ==
    LET again == render_task_editor_inner(view.shown, view.raw, tz)
    IN  /\ view.raw = Some(form)
        /\ (form.schedule_type = "monthwise" /\ form.monthwise_days # None)
               => again.monthwise_days = form.monthwise_days
        /\ (form.schedule_type = "certain_months" /\ form.cm_days # None)
               => again.cm_days = form.cm_days

\* C26: a save or create request whose form fails validation changes no
\* stored state, and its response shows the editor again with the day-range
\* text as posted and the error (or says that the task is not stored); only a
\* request that passes validation writes
C26_RefusedFormNotWritten ==
    /\ FormRefused =>
           /\ view.op \in {"save-errors", "create-errors", "not-found"}
           /\ task = view.base
           /\ view.op # "not-found" => RawTextShown
    /\ view.op \in {"saved", "created"} => ~has_errors(view.errors)

\* the same holds of every create request, and of every save request whose
\* first lookup of the task succeeds or whose second one fails
C26_RefusedFormNotWrittenOnceFound ==
    (FormRefused /\ view.op # "saved") =>
        /\ view.op \in {"save-errors", "create-errors", "not-found"}
        /\ task = view.base
        /\ view.op # "not-found" => RawTextShown

\* a form with a rejected day-range text was written over the stored task:
\* the alert time it carries is stored, the days of the stored task are kept
C26_WrittenWithErrors ==
    /\ view.op = "saved"
    /\ form.schedule_type = "monthwise"
    /\ form.monthwise_days = Some(<<"1", ",", " ", "3", "2">>)
    /\ view.errors.monthwise_days # None
    /\ task # view.base
    /\ task.schedule_kind = "Monthwise"
    /\ task.monthwise.days = view.base.monthwise.days

\* forms with errors shown again, on save and on create
C26_ShownAgain ==
    /\ view.op = "save-errors"
    /\ form.monthwise_days = Some(<<"x">>)
    /\ task = view.base

C26_NewShownAgain ==
    /\ view.op = "create-errors"
    /\ form.schedule_type = "certain_months"
    /\ task = NoTask


-----------------------------------------------------------------------------
(* tasks.rs, db.rs: deleting and restoring a stored task. The clock moves  *)
(* between the requests; a view keeps the last delete or restore applied   *)

\* variant: restoring leaves the timestamp in place
set_task_deleted_at_kept(t, deleted_at) ==
    [t EXCEPT !.deleted_at = IF deleted_at = None THEN @ ELSE deleted_at]

\* db::set_task_deleted_at: UPDATE tasks SET deleted_at = ? WHERE id = ?
set_task_deleted_at(t, deleted_at) == [t EXCEPT !.deleted_at = deleted_at]

\* the requests of one life
MaxRequests == 3

\* the time between two requests, in minutes
Pauses == {1, Days(1), Days(3)}

NoRequest == [request |-> "none", at |-> 0]

\* stored tasks of two kinds: never deleted or deleted a day ago, with no
\* creation instant, a past one, or one a day ahead
LifeTasksAt(at) ==
    {[t EXCEPT !.created_at = c, !.deleted_at = d] :
        t \in {x \in StoredTasksAt(at) : /\ x.completeable
                                         /\ x.schedule_kind \in {"NDays", "Once"}},
        c \in {None, Some(at - Days(10)), Some(at + Days(1))},
        d \in {None, Some(at - Days(1))}}

\* forms saved between a delete and a restore
LifeForms ==
    {[EmptyForm("n_days") EXCEPT !.n_days_count = Some(2)],
     [EmptyForm("once") EXCEPT !.once_now = Some("on"), !.completeable = Some("on")],
     [EmptyForm("monthwise") EXCEPT !.monthwise_days = Some(<<"x">>)]}

InitLife ==
    /\ now = Days(DaysFromCivil(2024, 3, 8)) + HM(5, 10)
    /\ tz = UTC
    /\ local = tz
    /\ task \in LifeTasksAt(now)
    /\ completions = <<now - 30>>
    /\ form = NoForm
    /\ view = [op |-> "start", requests |-> 0, last |-> NoRequest]
    /\ Configured

InLife == view.op # "none" /\ view.requests < MaxRequests

\* the clock moves on
Pass ==
    /\ InLife
    /\ view.op # "passed"
    /\ \E elapsed \in Pauses : now' = now + elapsed
    /\ view' = [op |-> "passed", requests |-> view.requests, last |-> view.last]
    /\ UNCHANGED <<tz, local, task, completions, form, APP_TIMEZONE, threads>>

\* POST /tasks/:id/delete: the update is applied, or fails and is only logged
DeleteTask ==
    /\ InLife
    /\ \E applied \in BOOLEAN :
           /\ task' = IF applied THEN set_task_deleted_at(task, Some(now)) ELSE task
           /\ view' = [op       |-> "deleted",
                       applied  |-> applied,
                       requests |-> view.requests + 1,
                       last     |-> IF applied THEN [request |-> "delete", at |-> now]
                                    ELSE view.last]
    /\ UNCHANGED <<now, tz, local, completions, form, APP_TIMEZONE, threads>>

\* POST /tasks/:id/restore
RestoreTask ==
    /\ InLife
    /\ \E applied \in BOOLEAN :
           /\ task' = IF applied THEN set_task_deleted_at(task, None) ELSE task
           /\ view' = [op       |-> "restored",
                       applied  |-> applied,
                       requests |-> view.requests + 1,
                       last     |-> IF applied THEN [request |-> "restore", at |-> now]
                                    ELSE view.last]
    /\ UNCHANGED <<now, tz, local, completions, form, APP_TIMEZONE, threads>>

\* POST /tasks/:id of a form posted without the editor
SaveStored ==
    /\ InLife
    /\ form' \in LifeForms
    /\ \E outcome \in {save_task(form', found[1], found[2]) : found \in BOOLEAN \X BOOLEAN} :
           /\ task' = IF outcome = "write" THEN to_demo_task(form', task, now, tz)
                      ELSE task
           /\ view' = [op       |-> IF outcome = "write" THEN "saved"
                                    ELSE IF outcome = "errors" THEN "save-errors"
                                    ELSE "not-found",
                       requests |-> view.requests + 1,
                       last     |-> view.last]
    /\ UNCHANGED <<now, tz, local, completions, APP_TIMEZONE, threads>>

\* GET /: the list of the task
Homepage ==
    /\ InLife
    /\ view' = [op          |-> "homepage",
                requests    |-> view.requests + 1,
                last        |-> view.last,
                is_inactive |-> is_inactive(task, now),
                category    |-> homepage(task, completions, now, tz)]
    /\ UNCHANGED <<now, tz, local, task, completions, form, APP_TIMEZONE, threads>>

NextLife == Pass \/ DeleteTask \/ RestoreTask \/ SaveStored \/ Homepage

SpecLife == InitLife /\ [][NextLife]_vars

-----------------------------------------------------------------------------
(* the life of a stored task                                               *)

CreatedLater == \E created_at \in task.created_at : now < created_at

\* what a step of the life is to do to the stored task, and the list of the
\* home page it leads to
LifeStep ==
    /\ (view'.op = "deleted" /\ view'.applied)
           => task' = [task EXCEPT !.deleted_at = Some(now)]
    /\ (view'.op = "restored" /\ view'.applied)
           => task' = [task EXCEPT !.deleted_at = None]
    /\ view'.op \in {"saved", "save-errors", "not-found"}
           => /\ task'.created_at = task.created_at
              /\ task'.deleted_at = task.deleted_at
    /\ (view'.op = "homepage" /\ view.last.request = "delete" /\ view.last.at < now)
           => /\ task.deleted_at = Some(view.last.at)
              /\ view'.category = "inactive"
    /\ (view'.op = "homepage" /\ view.last.request = "restore")
           => /\ task.deleted_at = None
              /\ view'.category = "inactive" <=> CreatedLater

C27_WitnessRestored ==
    /\ view.op = "homepage"
    /\ view.last.request = "restore"
    /\ now > view.last.at
    /\ view.category \notin {"inactive"}

C27_WitnessRestoredEarly ==
    /\ view.op = "homepage"
    /\ view.last.request = "restore"
    /\ CreatedLater
    /\ view.category = "inactive"


-----------------------------------------------------------------------------
(* the six lists of the home page                                          *)

HomepageLists == {"due", "alerting", "completed", "other", "recurring", "inactive"}

CompletedSinceDue == \E completion_time \in view.latest_completion :
                         completion_time > view.most_recent_due

\* C28: the home page puts a stored task in one of its six lists; a task is
\* in the Inactive list exactly when it is inactive, whatever its schedule and
\* completions, so that an inactive task is never listed as due, alerting or
\* completed; an active completeable task with a completion later than its
\* most recent due instant is in the Completed list
C28_OneListInactiveFirst ==
    Rendered =>
        /\ view.category \in HomepageLists
        /\ view.is_inactive <=> view.category = "inactive"
        /\ (~view.is_inactive /\ task.completeable /\ CompletedSinceDue)
               => view.category = "completed"

\* a deleted completeable task whose instant has passed and which was
\* completed after it, listed as inactive
C28_Witness ==
    /\ Rendered
    /\ view.is_inactive
    /\ task.completeable
    /\ task.deleted_at # None
    /\ view.next_due <= now
    /\ CompletedSinceDue
    /\ view.category = "inactive"

\* an active task that is due, completed after it became due
C28_WitnessCompleted ==
    /\ Rendered
    /\ ~view.is_inactive
    /\ task.completeable
    /\ view.is_due
    /\ CompletedSinceDue
    /\ view.category = "completed"


-----------------------------------------------------------------------------
(* the two searches for the most recent due date                           *)

\* C29: with the configured zone equal to the zone of the process, for every
\* schedule kind and parameters and every now, Schedule::most_recent_due_date
\* and DemoTask::most_recent_due_date return the same instant
C29_SearchesAgree ==
    (Evaluated /\ local = tz /\ task.created_at = None /\ task.deleted_at = None) =>
        view.most_recent_due = most_recent_due_date(task, now, tz).value

\* the two agree on EveryNDays schedules of 1 to 60 days without a window
C29_IntervalSearchesAgree ==
    (/\ Evaluated
     /\ local = tz
     /\ task.created_at = None /\ task.deleted_at = None
     /\ task.schedule_kind = "NDays"
     /\ task.n_days.days \in 1 .. BackwardHorizon) =>
        view.most_recent_due = most_recent_due_date(task, now, tz).value

\* the 31st of every month at 09:00, on 2024-01-25 at 03:30 UTC: the Schedule
\* answers now, the DemoTask 2023-12-31 09:00
C29_MonthlyDisagree ==
    /\ Evaluated
    /\ local = tz /\ tz = UTC
    /\ task.schedule_kind = "Monthwise"
    /\ task.monthwise = [days |-> <<31>>, time |-> HM(9, 0)]
    /\ now = Days(DaysFromCivil(2024, 1, 25)) + HM(3, 30)
    /\ view.most_recent_due = now
    /\ most_recent_due_date(task, now, tz).value = Days(DaysFromCivil(2023, 12, 31)) + HM(9, 0)


-----------------------------------------------------------------------------
(* the intervals of the tasks that are stored                              *)

TaskWritten == view.op \in {"saved", "created"}

\* C30: every task that a save or a create stores has an EveryNDays interval
\* of at least one day and an EveryNWeeks count of at least one week, so that
\* its due-date searches do not fail on the interval
C30_StoredIntervalsPositive ==
    TaskWritten =>
        /\ task.n_days.days >= 1
        /\ task.n_weeks.weeks >= 1
        /\ next_due_date(task, now, tz).ok
        /\ most_recent_due_date(task, now, tz).ok

\* a form without count fields leaves the stored intervals, which are positive
C30_IntervalsKeptPositive ==
    (TaskWritten /\ form.n_days_count = None /\ form.n_weeks_count = None) =>
        /\ view.op = "saved" => /\ task.n_days.days = view.base.n_days.days
                                /\ task.n_weeks.weeks = view.base.n_weeks.weeks
        /\ task.n_days.days >= 1
        /\ task.n_weeks.weeks >= 1

\* an EveryNDays task stored with an interval of 0 days, and one created so,
\* whose due-date searches fail
C30_StoredIntervalZero ==
    /\ view.op = "saved"
    /\ task.schedule_kind = "NDays"
    /\ task.n_days.days = 0
    /\ task.n_weeks.weeks = 0 - 1
    /\ ~next_due_date(task, now, tz).ok
    /\ ~most_recent_due_date(task, now, tz).ok

C30_CreatedIntervalZero ==
    /\ view.op = "created"
    /\ view.base = NoTask
    /\ task.schedule_kind = "NDays"
    /\ task.n_days.days = 0
    /\ ~most_recent_due_date(task, now, tz).ok

====
